---- MODULE Spec2Model ----
(***************************************************************************)
(* A model of fogis_api_client.FogisApiClient: the form login, the lazy    *)
(* login of _api_request, the RPC exchange and the unwrapping of the       *)
(* {"d": ...} response envelope.                                           *)
(*                                                                         *)
(* Python values are modelled as tagged tuples, a Python str as a sequence *)
(* of one-character strings, and json.loads / json.dumps as a parser and a *)
(* printer over such texts.                                                *)
(***************************************************************************)
EXTENDS Integers, Sequences, FiniteSets, TLC

(***************************************************************************)
(* Bounds of the model.                                                    *)
(***************************************************************************)
\* how many operations one thread starts in a behaviour
MaxCalls == 2
\* how many matches a list given to filter_matches holds at most
MaxMatches == 2
\* how many fields of a MatchListFilter are configured at most
MaxConfigured == 2

(***************************************************************************)
(* Python / JSON values.                                                   *)
(***************************************************************************)
JNull == <<"null">>
JBool(b) == <<"bool", b>>
JNum(n) == <<"num", n>>
JStr(s) == <<"str", s>>
JArr(a) == <<"arr", a>>
JObj(f) == <<"obj", f>>

Tag(v) == v[1]
IsStr(v) == Tag(v) = "str"
IsDict(v) == Tag(v) = "obj"
IsList(v) == Tag(v) = "arr"

EmptyDict == JObj([k \in {} |-> JNull])
Dict1(k, v) == JObj([x \in {k} |-> v])
Dict2(k1, v1, k2, v2) == JObj([x \in {k1, k2} |-> IF x = k1 THEN v1 ELSE v2])

\* the characters of the texts
Q == "\""
BS == "\\"
SP == " "
Digits == <<"0", "1", "2", "3", "4", "5", "6", "7", "8", "9">>
IsDigit(c) == \E i \in 1..Len(Digits) : Digits[i] = c
DigitVal(c) == (CHOOSE i \in 1..Len(Digits) : Digits[i] = c) - 1

(***************************************************************************)
(* json.loads: a recursive-descent parser of a text.  Every parser returns *)
(* [ok, val, next]: whether it matched, the value, the index after it.     *)
(***************************************************************************)
Fail == [ok |-> FALSE, val |-> JNull, next |-> 0]
Ok(v, i) == [ok |-> TRUE, val |-> v, next |-> i]

RECURSIVE SkipWs(_, _)
SkipWs(s, i) == IF i <= Len(s) /\ s[i] = SP THEN SkipWs(s, i + 1) ELSE i

HasPrefix(s, i, w) ==
    /\ i + Len(w) - 1 <= Len(s)
    /\ \A k \in 1..Len(w) : s[i + k - 1] = w[k]

\* the body of a string literal, after its opening quote
RECURSIVE ParseStringBody(_, _, _)
ParseStringBody(s, i, acc) ==
    IF i > Len(s) THEN Fail
    ELSE IF s[i] = Q THEN Ok(acc, i + 1)
    ELSE IF s[i] = BS
         THEN IF i + 1 <= Len(s) /\ s[i + 1] \in {Q, BS}
              THEN ParseStringBody(s, i + 2, Append(acc, s[i + 1]))
              ELSE Fail
    ELSE ParseStringBody(s, i + 1, Append(acc, s[i]))

RECURSIVE ParseDigits(_, _, _)
ParseDigits(s, i, n) ==
    IF i <= Len(s) /\ IsDigit(s[i])
    THEN ParseDigits(s, i + 1, 10 * n + DigitVal(s[i]))
    ELSE Ok(JNum(n), i)

RECURSIVE ParseValue(_, _)
RECURSIVE ParseElems(_, _, _)
RECURSIVE ParseMembers(_, _, _)

\* the elements of an array after "[" or ",": a value, then "," or "]"
ParseElems(s, i, acc) ==
    LET r == ParseValue(s, SkipWs(s, i)) IN
    IF ~r.ok THEN Fail
    ELSE LET j == SkipWs(s, r.next) IN
         IF j > Len(s) THEN Fail
         ELSE IF s[j] = "," THEN ParseElems(s, j + 1, Append(acc, r.val))
         ELSE IF s[j] = "]" THEN Ok(JArr(Append(acc, r.val)), j + 1)
         ELSE Fail

\* the members of an object after "{" or ",": "key" : value, then "," or "}";
\* a repeated key keeps its last value
ParseMembers(s, i, f) ==
    LET j == SkipWs(s, i) IN
    IF j > Len(s) \/ s[j] # Q THEN Fail
    ELSE LET k == ParseStringBody(s, j + 1, <<>>) IN
         IF ~k.ok THEN Fail
         ELSE LET c == SkipWs(s, k.next) IN
              IF c > Len(s) \/ s[c] # ":" THEN Fail
              ELSE LET r == ParseValue(s, SkipWs(s, c + 1)) IN
                   IF ~r.ok THEN Fail
                   ELSE LET g == [x \in (DOMAIN f) \cup {k.val} |->
                                     IF x = k.val THEN r.val ELSE f[x]]
                            e == SkipWs(s, r.next) IN
                        IF e > Len(s) THEN Fail
                        ELSE IF s[e] = "," THEN ParseMembers(s, e + 1, g)
                        ELSE IF s[e] = "}" THEN Ok(JObj(g), e + 1)
                        ELSE Fail

ParseValue(s, i) ==
    IF i > Len(s) THEN Fail
    ELSE IF s[i] = Q THEN
        LET r == ParseStringBody(s, i + 1, <<>>) IN
        IF r.ok THEN Ok(JStr(r.val), r.next) ELSE Fail
    ELSE IF s[i] = "{" THEN
        LET j == SkipWs(s, i + 1) IN
        IF j <= Len(s) /\ s[j] = "}" THEN Ok(EmptyDict, j + 1)
        ELSE ParseMembers(s, i + 1, [k \in {} |-> JNull])
    ELSE IF s[i] = "[" THEN
        LET j == SkipWs(s, i + 1) IN
        IF j <= Len(s) /\ s[j] = "]" THEN Ok(JArr(<<>>), j + 1)
        ELSE ParseElems(s, i + 1, <<>>)
    ELSE IF HasPrefix(s, i, <<"n", "u", "l", "l">>) THEN Ok(JNull, i + 4)
    ELSE IF HasPrefix(s, i, <<"t", "r", "u", "e">>) THEN Ok(JBool(TRUE), i + 4)
    ELSE IF HasPrefix(s, i, <<"f", "a", "l", "s", "e">>) THEN Ok(JBool(FALSE), i + 5)
    ELSE IF s[i] = "0" THEN Ok(JNum(0), i + 1)
    ELSE IF IsDigit(s[i]) THEN ParseDigits(s, i, 0)
    ELSE Fail

\* json.loads(s): [ok, val]; ok is FALSE where json.loads raises JSONDecodeError
json_loads(s) ==
    LET r == ParseValue(s, SkipWs(s, 1)) IN
    IF r.ok /\ SkipWs(s, r.next) = Len(s) + 1
    THEN [ok |-> TRUE, val |-> r.val]
    ELSE [ok |-> FALSE, val |-> JNull]

(***************************************************************************)
(* json.dumps: the text of a value, with the separators ", " and ": ".     *)
(***************************************************************************)
RECURSIVE EscapeText(_)
EscapeText(s) ==
    IF s = <<>> THEN <<>>
    ELSE (IF Head(s) \in {Q, BS} THEN <<BS, Head(s)>> ELSE <<Head(s)>>)
         \o EscapeText(Tail(s))

QuoteText(s) == <<Q>> \o EscapeText(s) \o <<Q>>

RECURSIVE NumText(_)
NumText(n) ==
    IF n < 10 THEN <<Digits[n + 1]>>
    ELSE NumText(n \div 10) \o <<Digits[(n % 10) + 1]>>

RECURSIVE json_dumps(_)
RECURSIVE DumpElems(_)
RECURSIVE DumpMembers(_, _)

DumpElems(a) ==
    IF a = <<>> THEN <<>>
    ELSE json_dumps(Head(a))
         \o (IF Len(a) > 1 THEN <<",", SP>> ELSE <<>>)
         \o DumpElems(Tail(a))

DumpMembers(f, keys) ==
    IF keys = {} THEN <<>>
    ELSE LET k == CHOOSE x \in keys : TRUE IN
         QuoteText(k) \o <<":", SP>> \o json_dumps(f[k])
         \o (IF keys # {k} THEN <<",", SP>> ELSE <<>>)
         \o DumpMembers(f, keys \ {k})

json_dumps(v) ==
    CASE Tag(v) = "null" -> <<"n", "u", "l", "l">>
      [] Tag(v) = "bool" -> IF v[2] THEN <<"t", "r", "u", "e">>
                            ELSE <<"f", "a", "l", "s", "e">>
      [] Tag(v) = "num" -> NumText(v[2])
      [] Tag(v) = "str" -> QuoteText(v[2])
      [] Tag(v) = "arr" -> <<"[">> \o DumpElems(v[2]) \o <<"]">>
      [] Tag(v) = "obj" -> <<"{">> \o DumpMembers(v[2], DOMAIN v[2]) \o <<"}">>

(***************************************************************************)
(* Python operations on the values.                                        *)
(***************************************************************************)
\* bool(v)
Truthy(v) ==
    CASE Tag(v) = "null" -> FALSE
      [] Tag(v) = "bool" -> v[2]
      [] Tag(v) = "num" -> v[2] # 0
      [] Tag(v) = "str" -> v[2] # <<>>
      [] Tag(v) = "arr" -> v[2] # <<>>
      [] Tag(v) = "obj" -> DOMAIN v[2] # {}

\* word in text, for two str
Contains(text, word) ==
    \E i \in 1..(Len(text) + 1) : HasPrefix(text, i, word)

KeyD == <<"d">>
KeyMatcher == <<"m", "a", "t", "c", "h", "e", "r">>
KeyMatchlista == <<"m", "a", "t", "c", "h", "l", "i", "s", "t", "a">>
KeySuccess == <<"s", "u", "c", "c", "e", "s", "s">>

\* the field names of the payloads
KeyMatchid == <<"m", "a", "t", "c", "h", "i", "d">>
KeyHandelsekod == <<"h", "a", "n", "d", "e", "l", "s", "e", "k", "o", "d">>
KeyMinut == <<"m", "i", "n", "u", "t">>
KeyLagid == <<"l", "a", "g", "i", "d">>
KeyPersonid == <<"p", "e", "r", "s", "o", "n", "i", "d">>
KeyAssisterandeid == <<"a", "s", "s", "i", "s", "t", "e", "r", "a", "n", "d", "e", "i", "d">>
KeyPeriod == <<"p", "e", "r", "i", "o", "d">>
KeyResultatHemma == <<"r", "e", "s", "u", "l", "t", "a", "t", "H", "e", "m", "m", "a">>
KeyResultatBorta == <<"r", "e", "s", "u", "l", "t", "a", "t", "B", "o", "r", "t", "a">>
KeyHemmamal == <<"h", "e", "m", "m", "a", "m", "a", "l">>
KeyBortamal == <<"b", "o", "r", "t", "a", "m", "a", "l">>
KeyHalvtidHemmamal == <<"h", "a", "l", "v", "t", "i", "d", "H", "e", "m", "m", "a", "m", "a", "l">>
KeyHalvtidBortamal == <<"h", "a", "l", "v", "t", "i", "d", "B", "o", "r", "t", "a", "m", "a", "l">>
KeyMatchlagledaretypid == <<"m", "a", "t", "c", "h", "l", "a", "g", "l", "e", "d", "a", "r", "e", "t", "y", "p", "i", "d">>
KeyMatchhandelseid == <<"m", "a", "t", "c", "h", "h", "a", "n", "d", "e", "l", "s", "e", "i", "d">>
KeySpelare == <<"s", "p", "e", "l", "a", "r", "e">>
KeyLag == <<"l", "a", "g">>

\* isinstance(v, int): bool is a subclass of int
IsInt(v) == Tag(v) \in {"num", "bool"}

\* text.strip(), for the blank the texts use
RECURSIVE StripLeft(_)
StripLeft(s) == IF s # <<>> /\ Head(s) = SP THEN StripLeft(Tail(s)) ELSE s
RECURSIVE StripRight(_)
StripRight(s) ==
    IF s # <<>> /\ s[Len(s)] = SP THEN StripRight(SubSeq(s, 1, Len(s) - 1)) ELSE s

\* the value of a text of decimal digits
RECURSIVE DecimalValue(_, _)
DecimalValue(s, n) ==
    IF s = <<>> THEN n ELSE DecimalValue(Tail(s), 10 * n + DigitVal(Head(s)))

\* int(v): [ok, val]; ok is FALSE where int raises ValueError or TypeError.
\* A str is stripped, may carry a sign, and holds decimal digits only.
int(v) ==
    CASE Tag(v) = "num" -> [ok |-> TRUE, val |-> v]
      [] Tag(v) = "bool" -> [ok |-> TRUE, val |-> JNum(IF v[2] THEN 1 ELSE 0)]
      [] Tag(v) = "str" ->
            LET body == StripRight(StripLeft(v[2]))
                signed == body # <<>> /\ Head(body) \in {"-", "+"}
                digits == IF signed THEN Tail(body) ELSE body
            IN IF digits # <<>> /\ \A i \in 1..Len(digits) : IsDigit(digits[i])
               THEN [ok |-> TRUE,
                     val |-> JNum(IF signed /\ Head(body) = "-"
                                  THEN 0 - DecimalValue(digits, 0)
                                  ELSE DecimalValue(digits, 0))]
               ELSE [ok |-> FALSE, val |-> JNull]
      [] OTHER -> [ok |-> FALSE, val |-> JNull]

\* "d" in v: "yes", "no", or "TypeError" where v is no container
InD(v) ==
    CASE Tag(v) = "obj" -> IF KeyD \in DOMAIN v[2] THEN "yes" ELSE "no"
      [] Tag(v) = "arr" -> IF \E i \in 1..Len(v[2]) : v[2][i] = JStr(KeyD)
                           THEN "yes" ELSE "no"
      [] Tag(v) = "str" -> IF Contains(v[2], KeyD) THEN "yes" ELSE "no"
      [] OTHER -> "TypeError"

(***************************************************************************)
(* Outcomes of a call: a returned value or a raised exception.             *)
(***************************************************************************)
Return(v) == [kind |-> "return", val |-> v]
Raise(e) == [kind |-> e, val |-> JNull]
NoResult == [kind |-> "none", val |-> JNull]

\* exception classes, with the base classes the except clauses test for
ExcClass(name, isRequestException, isJSONDecodeError) ==
    [name |-> name, req |-> isRequestException, json |-> isJSONDecodeError]
ConnectionError == ExcClass("ConnectionError", TRUE, FALSE)
HTTPError == ExcClass("HTTPError", TRUE, FALSE)
ValueError == ExcClass("ValueError", FALSE, FALSE)
TypeError == ExcClass("TypeError", FALSE, FALSE)
\* what response.json() raises: json.JSONDecodeError with requests < 2.27,
\* requests.exceptions.JSONDecodeError (a RequestException too) from 2.27 on;
\* setup.py does not pin the version
StdJSONDecodeError == ExcClass("JSONDecodeError", FALSE, TRUE)
RequestsJSONDecodeError == ExcClass("JSONDecodeError", TRUE, TRUE)
JsonErrorClasses == {StdJSONDecodeError, RequestsJSONDecodeError}

\* the except clauses of _api_request, in their order
ApiExcept(e) ==
    IF e.req THEN Raise("FogisAPIRequestError")
    ELSE IF e.json THEN Raise("FogisDataError")
    ELSE Raise(e.name)

\* the except clause of login
LoginExcept(e) ==
    IF e.req THEN Raise("FogisAPIRequestError") ELSE Raise(e.name)

\* response.raise_for_status()
RaisesForStatus(status) == 400 <= status /\ status < 600

\* mutant: the text of "d" is returned without the second parse
UnwrapNoReparse(response_json) ==
    CASE InD(response_json) = "TypeError" -> ApiExcept(TypeError)
      [] InD(response_json) = "no" -> Return(response_json)
      [] InD(response_json) = "yes" ->
            IF ~IsDict(response_json) THEN ApiExcept(TypeError)
            ELSE Return(response_json[2][KeyD])

\* the unwrapping of the parsed response body
Unwrap(response_json) ==
    CASE InD(response_json) = "TypeError" -> ApiExcept(TypeError)
      [] InD(response_json) = "no" -> Return(response_json)
      [] InD(response_json) = "yes" ->
            IF ~IsDict(response_json) THEN ApiExcept(TypeError)
            ELSE LET d == response_json[2][KeyD] IN
                 IF IsStr(d)
                 THEN LET p == json_loads(d[2]) IN
                      IF p.ok THEN Return(p.val) ELSE Return(d)
                 ELSE Return(d)

\* mutant: a body without "d" is refused as an unexpected format
HandleResponseStrict(r) ==
    IF r.kind = "exception" THEN ApiExcept(ConnectionError)
    ELSE IF RaisesForStatus(r.status) THEN ApiExcept(HTTPError)
    ELSE LET p == json_loads(r.body) IN
         IF ~p.ok THEN ApiExcept(r.jsonErr)
         ELSE IF InD(p.val) = "no" THEN Raise("FogisDataError")
         ELSE Unwrap(p.val)

\* _api_request from the response on
HandleResponse(r) ==
    IF r.kind = "exception" THEN ApiExcept(ConnectionError)
    ELSE IF RaisesForStatus(r.status) THEN ApiExcept(HTTPError)
    ELSE LET p == json_loads(r.body) IN
         IF ~p.ok THEN ApiExcept(r.jsonErr) ELSE Unwrap(p.val)

(***************************************************************************)
(* MatchListFilter.  An enum member is modelled by its value, a match by a  *)
(* record of the fields filter_matches reads.                              *)
(***************************************************************************)
\* MatchStatus
INTERRUPTED == "avbruten"
POSTPONED == "uppskjuten"
CANCELLED == "installd"
COMPLETED == "genomford"
NOT_STARTED == "ej_startad"
MatchStatus == {INTERRUPTED, POSTPONED, CANCELLED, COMPLETED, NOT_STARTED}
\* AgeCategory, Gender, FootballType
AgeCategory == 1..5
Gender == 2..4
FootballType == 1..2

\* a field of the filter: None, or the list a builder method was given
None == [set |-> FALSE, values |-> <<>>]
Listed(l) == [set |-> TRUE, values |-> l]
\* set(x.value for x in l)
ValueSet(l) == {l[i] : i \in 1..Len(l)}

\* MatchListFilter()
NewFilter ==
    [status_include |-> None, status_exclude |-> None,
     alderskategori_include |-> None, alderskategori_exclude |-> None,
     kon_include |-> None, kon_exclude |-> None,
     fotbollstypid_include |-> None, fotbollstypid_exclude |-> None,
     datum_fran |-> None, datum_till |-> None,
     datum_typ |-> None, sparad_datum |-> None]

\* a match with one status, as the portal and the tests give it
Match(id, status, age, gender, ftype) ==
    [matchid |-> id,
     installd |-> status = CANCELLED,
     avbruten |-> status = INTERRUPTED,
     uppskjuten |-> status = POSTPONED,
     arslutresultat |-> status = COMPLETED,
     tavlingAlderskategori |-> age,
     tavlingKonId |-> gender,
     fotbollstypid |-> ftype]

\* the inclusion logic for status
StatusIncluded(match, values) ==
    \/ match.installd /\ "installd" \in values
    \/ match.avbruten /\ "avbruten" \in values
    \/ match.uppskjuten /\ "uppskjuten" \in values
    \/ match.arslutresultat /\ "genomford" \in values

\* the exclusion logic for status
StatusExcluded(match, values) ==
    \/ "installd" \in values /\ match.installd
    \/ "avbruten" \in values /\ match.avbruten
    \/ "uppskjuten" \in values /\ match.uppskjuten

\* one `if ... is not None` step of filter_matches
Keep(field, ms, Test(_, _)) ==
    IF field.set THEN SelectSeq(ms, LAMBDA m : Test(m, ValueSet(field.values))) ELSE ms

\* mutant: the steps are alternatives (elif), only the first field that is set
\* is applied
filter_matches_elif(f, matches) ==
    IF f.status_include.set THEN Keep(f.status_include, matches, StatusIncluded)
    ELSE IF f.status_exclude.set
        THEN Keep(f.status_exclude, matches, LAMBDA m, v : ~StatusExcluded(m, v))
    ELSE IF f.alderskategori_include.set
        THEN Keep(f.alderskategori_include, matches,
                  LAMBDA m, v : m.tavlingAlderskategori \in v)
    ELSE IF f.alderskategori_exclude.set
        THEN Keep(f.alderskategori_exclude, matches,
                  LAMBDA m, v : m.tavlingAlderskategori \notin v)
    ELSE IF f.kon_include.set
        THEN Keep(f.kon_include, matches, LAMBDA m, v : m.tavlingKonId \in v)
    ELSE IF f.kon_exclude.set
        THEN Keep(f.kon_exclude, matches, LAMBDA m, v : m.tavlingKonId \notin v)
    ELSE IF f.fotbollstypid_include.set
        THEN Keep(f.fotbollstypid_include, matches, LAMBDA m, v : m.fotbollstypid \in v)
    ELSE Keep(f.fotbollstypid_exclude, matches, LAMBDA m, v : m.fotbollstypid \notin v)

\* mutant: a status include list that is None counts as an empty list
filter_matches_falsy(f, matches) ==
    IF f.status_include.set
    THEN Keep(f.status_include, matches, StatusIncluded)
    ELSE <<>>

\* f.filter_matches(matches)
filter_matches(f, matches) ==
    LET a == Keep(f.status_include, matches, StatusIncluded)
        b == Keep(f.status_exclude, a, LAMBDA m, v : ~StatusExcluded(m, v))
        c == Keep(f.alderskategori_include, b,
                  LAMBDA m, v : m.tavlingAlderskategori \in v)
        d == Keep(f.alderskategori_exclude, c,
                  LAMBDA m, v : m.tavlingAlderskategori \notin v)
        g == Keep(f.kon_include, d, LAMBDA m, v : m.tavlingKonId \in v)
        h == Keep(f.kon_exclude, g, LAMBDA m, v : m.tavlingKonId \notin v)
        i == Keep(f.fotbollstypid_include, h, LAMBDA m, v : m.fotbollstypid \in v)
    IN Keep(f.fotbollstypid_exclude, i, LAMBDA m, v : m.fotbollstypid \notin v)

\* no filter_matches call yet
NotRun == [run |-> FALSE, matches |-> <<>>, filtered |-> <<>>]
\* no build_payload call yet
NotBuilt == [run |-> FALSE, result |-> NoResult]

\* the keys of the server-side filter
KeyFilter == <<"f", "i", "l", "t", "e", "r">>
KeyDatumFran == <<"d", "a", "t", "u", "m", "F", "r", "a", "n">>
KeyDatumTill == <<"d", "a", "t", "u", "m", "T", "i", "l", "l">>
KeyDatumTyp == <<"d", "a", "t", "u", "m", "T", "y", "p">>
KeyTyp == <<"t", "y", "p">>
KeyStatus == <<"s", "t", "a", "t", "u", "s">>
KeyAlderskategori == <<"a", "l", "d", "e", "r", "s", "k", "a", "t", "e", "g", "o", "r", "i">>
KeyKon == <<"k", "o", "n">>
KeySparadDatum == <<"s", "p", "a", "r", "a", "d", "D", "a", "t", "u", "m">>

\* status.value as a str of the payload
StatusText(status) ==
    CASE status = INTERRUPTED -> <<"a", "v", "b", "r", "u", "t", "e", "n">>
      [] status = POSTPONED -> <<"u", "p", "p", "s", "k", "j", "u", "t", "e", "n">>
      [] status = CANCELLED -> <<"i", "n", "s", "t", "a", "l", "l", "d">>
      [] status = COMPLETED -> <<"g", "e", "n", "o", "m", "f", "o", "r", "d">>
      [] status = NOT_STARTED -> <<"e", "j", "_", "s", "t", "a", "r", "t", "a", "d">>

\* [status.value for status in l] and [cat.value for cat in l]
StatusValues(l) == JArr([i \in 1..Len(l) |-> JStr(StatusText(l[i]))])
NumberValues(l) == JArr([i \in 1..Len(l) |-> JNum(l[i])])

\* d[k] = v
Put(d, k, v) == JObj([x \in DOMAIN d[2] \cup {k} |-> IF x = k THEN v ELSE d[2][x]])

\* bool(field) for an attribute that is None or a list
NonEmpty(field) == field.set /\ field.values # <<>>
\* bool(field) for an attribute that is None or the value a caller gave
Given(field) == field.set /\ Truthy(field.values)

\* the "status", "alderskategori" or "kon" entry of build_payload: the include
\* list where it is not empty, else the exclude list
Criteria(d, k, include, exclude, Values(_)) ==
    IF NonEmpty(include) \/ NonEmpty(exclude)
    THEN Put(d, k, IF NonEmpty(include) THEN Values(include.values)
                   ELSE IF NonEmpty(exclude) THEN Values(exclude.values)
                   ELSE JArr(<<>>))
    ELSE d

\* f.build_payload()
build_payload(f) ==
    LET a == IF Given(f.datum_fran) THEN Put(EmptyDict, KeyDatumFran, f.datum_fran.values)
             ELSE EmptyDict
        b == IF Given(f.datum_till) THEN Put(a, KeyDatumTill, f.datum_till.values) ELSE a
        c == Criteria(b, KeyStatus, f.status_include, f.status_exclude, StatusValues)
        d == Criteria(c, KeyAlderskategori, f.alderskategori_include,
                      f.alderskategori_exclude, NumberValues)
    IN Criteria(d, KeyKon, f.kon_include, f.kon_exclude, NumberValues)

(***************************************************************************)
(* Dates.  A reading of the clock is the number of the day, counted from   *)
(* 1970-01-01; a date is its year, month and day.                          *)
(***************************************************************************)
\* the date of day number n (proleptic Gregorian calendar)
DateOfDay(n) ==
    LET z == n + 719468
        era == z \div 146097
        doe == z - era * 146097
        yoe == (doe - doe \div 1460 + doe \div 36524 - doe \div 146096) \div 365
        doy == doe - (365 * yoe + yoe \div 4 - yoe \div 100)
        mp == (5 * doy + 2) \div 153
        m == IF mp < 10 THEN mp + 3 ELSE mp - 9
    IN [year |-> yoe + era * 400 + (IF m <= 2 THEN 1 ELSE 0),
        month |-> m,
        day |-> doy - (153 * mp + 2) \div 5 + 1]

\* date(year, month, day), as the number of its day
DayOfDate(year, month, day) ==
    LET y == IF month <= 2 THEN year - 1 ELSE year
        era == y \div 400
        yoe == y - era * 400
        doy == (153 * (IF month > 2 THEN month - 3 ELSE month + 9) + 2) \div 5 + day - 1
    IN era * 146097 + yoe * 365 + yoe \div 4 - yoe \div 100 + doy - 719468

\* n as decimal digits, zero-padded to the width w
Padded(n, w) ==
    LET text == NumText(n) IN
    [i \in 1..(w - Len(text)) |-> "0"] \o text

\* day.strftime("%Y-%m-%d")
strftime(n) ==
    Padded(DateOfDay(n).year, 4) \o <<"-">> \o Padded(DateOfDay(n).month, 2)
        \o <<"-">> \o Padded(DateOfDay(n).day, 2)

\* the keys of a match that filter_matches reads
KeyInstalld == <<"i", "n", "s", "t", "a", "l", "l", "d">>
KeyAvbruten == <<"a", "v", "b", "r", "u", "t", "e", "n">>
KeyUppskjuten == <<"u", "p", "p", "s", "k", "j", "u", "t", "e", "n">>
KeyArslutresultat == <<"a", "r", "s", "l", "u", "t", "r", "e", "s", "u", "l", "t", "a", "t">>
KeyTavlingAlderskategori == <<"t", "a", "v", "l", "i", "n", "g", "A", "l", "d", "e", "r", "s", "k", "a", "t", "e", "g", "o", "r", "i">>
KeyTavlingKonId == <<"t", "a", "v", "l", "i", "n", "g", "K", "o", "n", "I", "d">>
KeyFotbollstypid == <<"f", "o", "t", "b", "o", "l", "l", "s", "t", "y", "p", "i", "d">>

\* d.get(k)
Get(d, k) == IF k \in DOMAIN d[2] THEN d[2][k] ELSE JNull

\* match.get(k) for a key that holds a number; 0, a member of no enum, where
\* the match has no number for k
Number(d, k) == IF Tag(Get(d, k)) = "num" THEN Get(d, k)[2] ELSE 0

\* what filter_matches reads of the match d, a dict of the portal
MatchOf(d) ==
    [matchid |-> Number(d, KeyMatchid),
     installd |-> Truthy(Get(d, KeyInstalld)),
     avbruten |-> Truthy(Get(d, KeyAvbruten)),
     uppskjuten |-> Truthy(Get(d, KeyUppskjuten)),
     arslutresultat |-> Truthy(Get(d, KeyArslutresultat)),
     tavlingAlderskategori |-> Number(d, KeyTavlingAlderskategori),
     tavlingKonId |-> Number(d, KeyTavlingKonId),
     fotbollstypid |-> Number(d, KeyFotbollstypid)]

\* f.filter_matches(list) for a list of dicts: the matches are told apart by
\* their place in the list
FilterDicts(f, list) ==
    LET kept == filter_matches(f, [i \in 1..Len(list) |->
                                     [MatchOf(list[i]) EXCEPT !.matchid = i]])
    IN [k \in 1..Len(kept) |-> list[kept[k].matchid]]

\* the default payload of fetch_matches_list_json; today, fran and till are
\* the three readings of the clock
DefaultFilter(today, fran, till) ==
    [k \in {KeyDatumFran, KeyDatumTill, KeyDatumTyp, KeyTyp, KeyStatus,
            KeyAlderskategori, KeyKon, KeySparadDatum} |->
        CASE k = KeyDatumFran -> JStr(strftime(fran - 7))
          [] k = KeyDatumTill -> JStr(strftime(till + 365))
          [] k = KeyDatumTyp -> JNum(0)
          [] k = KeyTyp -> JStr(<<"a", "l", "l", "a">>)
          [] k = KeyStatus -> StatusValues(<<INTERRUPTED, POSTPONED, CANCELLED>>)
          [] k = KeyAlderskategori -> NumberValues(<<1, 2, 3, 4, 5>>)
          [] k = KeyKon -> NumberValues(<<3, 2, 4>>)
          [] k = KeySparadDatum -> JStr(strftime(today))]

\* mutant: the filter of the caller stands in for the defaults
MatchesPayloadReplaced(filter, clock) ==
    Dict1(KeyFilter,
          IF Truthy(filter) THEN filter
          ELSE JObj(DefaultFilter(clock[1], clock[2], clock[3])))

\* the payload of fetch_matches_list_json(filter): the defaults, updated with
\* the filter where it is given and not empty
MatchesPayload(filter, clock) ==
    LET default == DefaultFilter(clock[1], clock[2], clock[3]) IN
    Dict1(KeyFilter,
          IF Truthy(filter)
          THEN JObj([k \in DOMAIN default \cup DOMAIN filter[2] |->
                        IF k \in DOMAIN filter[2] THEN filter[2][k] ELSE default[k]])
          ELSE JObj(default))

(***************************************************************************)
(* The client, the threads that use it and the portal's responses.         *)
(***************************************************************************)
Threads == {1, 2}

AUTH == "FogisMobilDomarKlient.ASPXAUTH"
SESSIONID == "ASP.NET_SessionId"
CONSENT == "cookieconsent_status"

\* a cookie dict: cookie name -> value; the value of a cookie the portal sets
\* is the number of the credential POST that set it, any other value is 0
NoCookies == [n \in {} |-> 0]
CookieDict(names, value) == [n \in names |-> value]
\* the jar taking the cookies of a response
Merge(old, new) ==
    [n \in (DOMAIN old) \cup (DOMAIN new) |-> IF n \in DOMAIN new THEN new[n] ELSE old[n]]
Token(c) == <<"cookies", c>>

Usernames == {<<"r", "e", "f">>, <<"t", "e", "s", "t", "1">>}
Passwords == {<<"p", "w">>}

Segment(name) == <<"mdk", "MatchWebMetoder.aspx", name>>
\* url.endswith(name), for a url given by its path segments
EndsWith(url, name) == url # <<>> /\ url[Len(url)] = name

\* method.upper()
Upper(m) ==
    CASE m = "post" -> "POST"
      [] m = "get" -> "GET"
      [] m = "put" -> "PUT"
      [] OTHER -> m

VARIABLES
    username,   \* self.username, <<>> for None
    password,   \* self.password, <<>> for None
    cookies,    \* self.cookies, NoCookies for None
    jar,        \* self.session.cookies
    active,     \* the threads that use the client
    pc,         \* pc[t]: where thread t is in its operation
    frame,      \* frame[t]: the operation of t and its arguments
    result,     \* result[t]: the outcome of the operation of t
    log,        \* log[t]: the calls and HTTP requests of the operation of t
    resp,       \* resp[t]: the response to the RPC request of t
    postResp,   \* postResp[t]: the response to the credential POST of t
    pageResp,   \* pageResp[t]: the response to the GET of the login page of t
    calls,      \* calls[t]: how many operations t has started
    posts,      \* how many credential POSTs the portal has received
    mlf,        \* a MatchListFilter: its fields
    filterRun,  \* the last filter_matches call on mlf: its argument and result
    chain,      \* the builder methods called on mlf, in the order of the calls
    built       \* the last build_payload call on mlf: its result

vars == <<username, password, cookies, jar, active, pc, frame, result, log, resp,
          postResp, pageResp, calls, posts, mlf, filterRun, chain, built>>

\* an operation, the url and method of its request, and self.cookies at its
\* call; args is the argument of the operation and payload the payload it
\* hands to _api_request, both left None for the operations whose argument
\* the model does not follow; clock holds the readings of the clock the
\* operation takes, in their order
Frame(op, url, method, ck) ==
    [op |-> op, url |-> url, method |-> method, token |-> ck,
     args |-> JNull, payload |-> JNull, clock |-> <<>>]
Request(fr, args, payload) == [fr EXCEPT !.args = args, !.payload = payload]
NoFrame == Frame("none", <<>>, "", [n \in {} |-> 0])
NoPost == [kind |-> "none", status |-> 0, cookies |-> {}, location |-> FALSE]
NoResp == [kind |-> "none", status |-> 0, body |-> <<>>, jsonErr |-> StdJSONDecodeError]
NoPageYet == [kind |-> "none", status |-> 0, form |-> FALSE, viewstate |-> FALSE,
              eventvalidation |-> FALSE]

\* FogisApiClient(username, password, cookies)
Construct(u, p, c) ==
    /\ c # NoCookies \/ (u # <<>> /\ p # <<>>)
    /\ username = u
    /\ password = p
    /\ cookies = c
    /\ jar = c

InitThreads(a) ==
    /\ active = a
    /\ pc = [t \in Threads |-> "idle"]
    /\ frame = [t \in Threads |-> NoFrame]
    /\ result = [t \in Threads |-> NoResult]
    /\ log = [t \in Threads |-> <<>>]
    /\ resp = [t \in Threads |-> NoResp]
    /\ postResp = [t \in Threads |-> NoPost]
    /\ pageResp = [t \in Threads |-> NoPageYet]
    /\ calls = [t \in Threads |-> 0]
    /\ posts = 0

SuppliedCookies == {NoCookies, CookieDict({AUTH}, 0), CookieDict({SESSIONID}, 0)}

\* the credentials given to the constructor: both, or none
Credentials == (Usernames \X Passwords) \cup {<< <<>>, <<>> >>}

\* filter = MatchListFilter()
ConstructFilter ==
    /\ mlf = NewFilter
    /\ filterRun = NotRun
    /\ chain = <<>>
    /\ built = NotBuilt

Init ==
    /\ \E up \in Credentials, c \in SuppliedCookies : Construct(up[1], up[2], c)
    /\ InitThreads({1})
    /\ ConstructFilter

(***************************************************************************)
(* The steps of an operation.  A thread takes one step for each HTTP       *)
(* request: the step sends the request, takes the response and runs the    *)
(* code up to the next request or to the end of the operation.             *)
(***************************************************************************)
\* mutant: validate_cookies catches FogisLoginError only
ValidateResultLoginOnly(r) ==
    IF r.kind = "return" THEN Return(JBool(TRUE))
    ELSE IF r.kind = "FogisLoginError" THEN Return(JBool(FALSE))
    ELSE r

\* validate_cookies: any return is True, the two caught errors are False
ValidateResult(r) ==
    IF r.kind = "return" THEN Return(JBool(TRUE))
    ELSE IF r.kind \in {"FogisLoginError", "FogisAPIRequestError"}
         THEN Return(JBool(FALSE))
    ELSE r

\* fetch_matches_list_json: the "matchlista" of a dict, else an empty list
MatchesList(r) ==
    IF r.kind # "return" THEN r
    ELSE IF Truthy(r.val) /\ IsDict(r.val) /\ KeyMatchlista \in DOMAIN r.val[2]
         THEN Return(r.val[2][KeyMatchlista])
    ELSE Return(JArr(<<>>))

\* if isinstance(response_data, dict): return it, else raise FogisDataError
ExpectDict(r) ==
    IF r.kind # "return" THEN r
    ELSE IF IsDict(r.val) THEN r
    ELSE Raise("FogisDataError")

\* if isinstance(response_data, list): return it, else raise FogisDataError
ExpectList(r) ==
    IF r.kind # "return" THEN r
    ELSE IF IsList(r.val) THEN r
    ELSE Raise("FogisDataError")

\* fetch_match_result_json: a dict or a list
ExpectDictOrList(r) ==
    IF r.kind # "return" THEN r
    ELSE IF IsDict(r.val) \/ IsList(r.val) THEN r
    ELSE Raise("FogisDataError")

\* fetch_team_players_json: a dict with "spelare", or a list put under "spelare"
TeamPlayers(r) ==
    IF r.kind # "return" THEN r
    ELSE IF IsDict(r.val) /\ KeySpelare \in DOMAIN r.val[2] THEN r
    ELSE IF IsList(r.val) THEN Return(Dict1(KeySpelare, r.val))
    ELSE Raise("FogisDataError")

\* mutant: only an explicit "success" counts, an absent body is a failure
DeleteResultExplicit(r) ==
    IF r.kind \in {"FogisAPIRequestError", "FogisDataError"} THEN Return(JBool(FALSE))
    ELSE IF r.kind # "return" THEN r
    ELSE IF IsDict(r.val) /\ KeySuccess \in DOMAIN r.val[2]
         THEN Return(JBool(Truthy(r.val[2][KeySuccess])))
    ELSE Return(JBool(FALSE))

\* delete_match_event: the try block around _api_request and its except clause
DeleteResult(r) ==
    IF r.kind \in {"FogisAPIRequestError", "FogisDataError"} THEN Return(JBool(FALSE))
    ELSE IF r.kind # "return" THEN r
    ELSE IF Tag(r.val) = "null" THEN Return(JBool(TRUE))
    ELSE IF IsDict(r.val) /\ KeySuccess \in DOMAIN r.val[2]
         THEN Return(JBool(Truthy(r.val[2][KeySuccess])))
    ELSE Return(JBool(FALSE))

\* the operations that return a dict
DictOps ==
    {"fetch_match_json", "fetch_match_players_json", "fetch_match_officials_json",
     "report_match_event", "report_match_result", "report_team_official_action",
     "clear_match_events", "mark_reporting_finished"}
\* the operations that return a list
ListOps == {"fetch_match_events_json", "fetch_team_officials_json"}

\* fetch_filtered_matches of the filter f after its fetch_matches_list_json
\* call, whose outcome is r: a list of dicts is filtered; list(matches) of a
\* number raises TypeError
FilteredMatches(f, r) ==
    IF r.kind # "return" THEN r
    ELSE IF r.val = JNull THEN Return(JArr(<<>>))
    ELSE IF ~IsList(r.val) THEN Raise(TypeError.name)
    ELSE Return(JArr(FilterDicts(f, r.val[2])))

\* fetch_filtered_matches has called filter_matches
FilterStepRun(op, r) ==
    /\ op = "fetch_filtered_matches"
    /\ MatchesList(r).kind = "return"
    /\ MatchesList(r).val # JNull

\* what the operation `op` makes of the outcome r of its _api_request call
Finish(op, r) ==
    CASE op = "validate_cookies" -> ValidateResult(r)
      [] op = "fetch_matches_list_json" -> MatchesList(r)
      [] op = "fetch_filtered_matches" -> FilteredMatches(mlf, MatchesList(r))
      [] op \in DictOps -> ExpectDict(r)
      [] op \in ListOps -> ExpectList(r)
      [] op = "fetch_match_result_json" -> ExpectDictOrList(r)
      [] op = "fetch_team_players_json" -> TeamPlayers(r)
      [] op = "delete_match_event" -> DeleteResult(r)
      [] OTHER -> r

\* the thread's part of the state after a step: [pc, result, log]
Ended(op, r, lg) ==
    [pc |-> "done", result |-> Finish(op, r),
     log |-> IF FilterStepRun(op, r) THEN Append(lg, "filter_matches()") ELSE lg]
Goes(to, lg) == [pc |-> to, result |-> NoResult, log |-> lg]

\* _api_request from the request headers to the request
ApiSend(fr, lg) ==
    IF Upper(fr.method) \in {"POST", "GET"} THEN Goes("rpc", lg)
    ELSE Ended(fr.op, ApiExcept(ValueError), lg)

\* login() has returned, with self.cookies = ck
LoginReturned(fr, lg, ck) ==
    LET lg2 == Append(lg, "login returned") IN
    IF fr.op = "login" THEN Ended(fr.op, Return(Token(ck)), lg2)
    ELSE IF ck = NoCookies
         THEN Ended(fr.op, Raise("FogisLoginError"), lg2)
    ELSE ApiSend(fr, lg2)

\* mutant: _api_request swallows the failure of its login and goes on
LoginRaisedSwallowed(fr, lg, r) ==
    IF fr.op = "login" THEN Ended(fr.op, r, lg \o <<"login raised", r.kind>>)
    ELSE ApiSend(fr, lg \o <<"login raised", r.kind>>)

\* login() has raised r
LoginRaised(fr, lg, r) == Ended(fr.op, r, lg \o <<"login raised", r.kind>>)

\* mutant: login() without the test for a held token
LoginEnterAlways(fr, lg, ck) ==
    IF ~(username # <<>> /\ password # <<>>)
    THEN LoginRaised(fr, Append(lg, "login()"), Raise("FogisLoginError"))
    ELSE Goes("login_get", Append(lg, "login()"))

\* mutant: once the credentials were submitted, login() does not try again
LoginEnterGivesUp(fr, lg, ck) ==
    LET lg2 == Append(lg, "login()") IN
    IF ck # NoCookies THEN LoginReturned(fr, lg2, ck)
    ELSE IF ~(username # <<>> /\ password # <<>>) \/ posts > 0
         THEN LoginRaised(fr, lg2, Raise("FogisLoginError"))
    ELSE Goes("login_get", lg2)

\* login() from its call to its first request
LoginEnter(fr, lg, ck) ==
    LET lg2 == Append(lg, "login()") IN
    IF ck # NoCookies THEN LoginReturned(fr, lg2, ck)
    ELSE IF ~(username # <<>> /\ password # <<>>)
         THEN LoginRaised(fr, lg2, Raise("FogisLoginError"))
    ELSE Goes("login_get", lg2)

\* the reply of _api_request that is kept for tests
TestMock(fr) ==
    /\ username # <<>>
    /\ Contains(username, <<"t", "e", "s", "t">>)
    /\ EndsWith(fr.url, "HamtaMatchLista")

\* mutant: _api_request without the lazy login
ApiEnterNoLogin(fr, lg, ck) ==
    IF TestMock(fr)
    THEN Ended(fr.op, Return(Dict1(KeyMatcher, JArr(<<>>))), lg)
    ELSE ApiSend(fr, lg)

\* mutant: the lazy login is exclusive; a call that finds another thread inside
\* login() does not authenticate
ApiEnterExclusive(fr, lg, ck) ==
    IF TestMock(fr)
    THEN Ended(fr.op, Return(Dict1(KeyMatcher, JArr(<<>>))), lg)
    ELSE IF ck = NoCookies /\ \A u \in Threads : pc[u] \notin {"login_get", "login_post", "login_redirect"}
         THEN LoginEnter(fr, lg, ck)
    ELSE ApiSend(fr, lg)

\* _api_request from its call to its first request
ApiEnter(fr, lg, ck) ==
    IF TestMock(fr)
    THEN Ended(fr.op, Return(Dict1(KeyMatcher, JArr(<<>>))), lg)
    ELSE IF ck = NoCookies THEN LoginEnter(fr, lg, ck)
    ELSE ApiSend(fr, lg)

\* thread t moves to `to`, a [pc, result, log]
Step(t, to) ==
    /\ pc' = [pc EXCEPT ![t] = to.pc]
    /\ result' = [result EXCEPT ![t] = to.result]
    /\ log' = [log EXCEPT ![t] = to.log]

CanCall(t) ==
    /\ t \in active
    /\ pc[t] \in {"idle", "done"}
    /\ calls[t] < MaxCalls

Begin(t, fr, to) ==
    /\ CanCall(t)
    /\ calls' = [calls EXCEPT ![t] = @ + 1]
    /\ frame' = [frame EXCEPT ![t] = fr]
    /\ resp' = [resp EXCEPT ![t] = NoResp]
    /\ postResp' = [postResp EXCEPT ![t] = NoPost]
    /\ pageResp' = [pageResp EXCEPT ![t] = NoPageYet]
    /\ Step(t, to)

\* client.login()
CallLogin(t) ==
    /\ Begin(t, Frame("login", <<>>, "", cookies),
             LoginEnter(Frame("login", <<>>, "", cookies), <<>>, cookies))
    /\ UNCHANGED <<username, password, cookies, jar, active, posts, mlf, filterRun, chain, built>>

\* client._api_request(url, payload, method)
CallApiRequest(t, name, method) ==
    /\ Begin(t, Frame("_api_request", Segment(name), method, cookies),
             ApiEnter(Frame("_api_request", Segment(name), method, cookies), <<>>, cookies))
    /\ UNCHANGED <<username, password, cookies, jar, active, posts, mlf, filterRun, chain, built>>

ValidateFrame(ck) == Frame("validate_cookies", Segment("GetMatcherAttRapportera"), "GET", ck)

\* client.validate_cookies()
CallValidateCookies(t) ==
    /\ Begin(t, ValidateFrame(cookies),
             IF cookies = NoCookies
             THEN [pc |-> "done", result |-> Return(JBool(FALSE)), log |-> <<>>]
             ELSE ApiEnter(ValidateFrame(cookies), <<>>, cookies))
    /\ UNCHANGED <<username, password, cookies, jar, active, posts, mlf, filterRun, chain, built>>

\* the endpoint of a fetch operation
FetchEndpoint(op) ==
    CASE op = "fetch_matches_list_json" -> "GetMatcherAttRapportera"
      [] op = "fetch_match_json" -> "GetMatch"
      [] op = "fetch_match_players_json" -> "GetMatchdeltagareLista"
      [] op = "fetch_match_officials_json" -> "GetMatchfunktionarerLista"
      [] op = "fetch_match_events_json" -> "GetMatchhandelselista"
      [] op = "fetch_team_players_json" -> "GetMatchdeltagareListaForMatchlag"
      [] op = "fetch_team_officials_json" -> "GetMatchlagledareListaForMatchlag"
      [] op = "fetch_match_result_json" -> "GetMatchresultatlista"

FetchOps ==
    {"fetch_matches_list_json", "fetch_match_json", "fetch_match_players_json",
     "fetch_match_officials_json", "fetch_match_events_json", "fetch_team_players_json",
     "fetch_team_officials_json", "fetch_match_result_json"}

FetchFrame(op, ck) == Frame(op, Segment(FetchEndpoint(op)), "POST", ck)

\* client.fetch_matches_list_json(), client.fetch_match_json(match_id)
CallFetch(t, op) ==
    /\ Begin(t, FetchFrame(op, cookies), ApiEnter(FetchFrame(op, cookies), <<>>, cookies))
    /\ UNCHANGED <<username, password, cookies, jar, active, posts, mlf, filterRun, chain, built>>

\* an operation that ends before it reaches _api_request
Raised(r) == [pc |-> "done", result |-> r, log |-> <<>>]

ReportOps == {"report_match_event", "report_match_result", "report_team_official_action"}

ReportEndpoint(op) ==
    CASE op = "report_match_event" -> "SparaMatchhandelse"
      [] op = "report_match_result" -> "SparaMatchresultatLista"
      [] op = "report_team_official_action" -> "SparaMatchlagledare"

\* required_fields of a report operation
RequiredFields(op) ==
    CASE op = "report_match_event" -> {KeyMatchid, KeyHandelsekod, KeyMinut, KeyLagid}
      [] op = "report_match_result" -> {KeyMatchid, KeyHemmamal, KeyBortamal}
      [] op = "report_team_official_action" ->
            {KeyMatchid, KeyLagid, KeyPersonid, KeyMatchlagledaretypid}

\* the fields a report operation makes integers
NumericFields(op) ==
    CASE op = "report_match_event" ->
            {KeyMatchid, KeyHandelsekod, KeyMinut, KeyLagid, KeyPersonid,
             KeyAssisterandeid, KeyPeriod, KeyResultatHemma, KeyResultatBorta}
      [] op = "report_match_result" ->
            {KeyMatchid, KeyHemmamal, KeyBortamal, KeyHalvtidHemmamal, KeyHalvtidBortamal}
      [] op = "report_team_official_action" ->
            {KeyMatchid, KeyLagid, KeyPersonid, KeyMatchlagledaretypid, KeyMinut}

\* mutant: no field is required
MissingFieldNever(op, data) == FALSE

\* for field in required_fields: if field not in data
MissingField(op, data) == \E k \in RequiredFields(op) : k \notin DOMAIN data[2]

\* mutant: the copy is sent as the caller gave it
CoerceNothing(data, fields) == [ok |-> TRUE, val |-> data]

\* the copy of the caller's dict with int() applied to the str values of
\* `fields`: [ok, val]; ok is FALSE where int raises ValueError
Coerce(data, fields) ==
    IF \E k \in fields \cap DOMAIN data[2] : IsStr(data[2][k]) /\ ~int(data[2][k]).ok
    THEN [ok |-> FALSE, val |-> JNull]
    ELSE [ok |-> TRUE,
          val |-> JObj([k \in DOMAIN data[2] |->
                          IF k \in fields /\ IsStr(data[2][k])
                          THEN int(data[2][k]).val
                          ELSE data[2][k]])]

\* a report operation up to its _api_request call: [ok, payload]
ReportPayload(op, data) ==
    IF MissingField(op, data) THEN [ok |-> FALSE, val |-> JNull]
    ELSE Coerce(data, NumericFields(op))

ReportFrame(op, data, ck) ==
    Request(Frame(op, Segment(ReportEndpoint(op)), "POST", ck), data,
            ReportPayload(op, data).val)

\* client.report_match_event(data), client.report_match_result(data),
\* client.report_team_official_action(data)
CallReport(t, op, data) ==
    /\ Begin(t, ReportFrame(op, data, cookies),
             IF ReportPayload(op, data).ok
             THEN ApiEnter(ReportFrame(op, data, cookies), <<>>, cookies)
             ELSE Raised(Raise("ValueError")))
    /\ UNCHANGED <<username, password, cookies, jar, active, posts, mlf, filterRun, chain, built>>

IdOps == {"delete_match_event", "clear_match_events", "mark_reporting_finished"}

IdEndpoint(op) ==
    CASE op = "delete_match_event" -> "RaderaMatchhandelse"
      [] op = "clear_match_events" -> "ClearMatchEvents"
      [] op = "mark_reporting_finished" -> "SparaMatchGodkannDomarrapport"

\* the id as an integer: delete_match_event converts a str only, the other
\* two convert a str or an int
IdInt(op, id) ==
    IF IsStr(id) \/ (op # "delete_match_event" /\ IsInt(id)) THEN int(id)
    ELSE [ok |-> TRUE, val |-> id]

\* an operation on one id up to its _api_request call: [ok, payload]
IdPayload(op, id) ==
    IF op = "mark_reporting_finished" /\ ~Truthy(id) THEN [ok |-> FALSE, val |-> JNull]
    ELSE IF ~IdInt(op, id).ok THEN [ok |-> FALSE, val |-> JNull]
    ELSE [ok |-> TRUE,
          val |-> Dict1(IF op = "delete_match_event" THEN KeyMatchhandelseid
                        ELSE KeyMatchid,
                        IdInt(op, id).val)]

IdFrame(op, id, ck) ==
    Request(Frame(op, Segment(IdEndpoint(op)), "POST", ck), id, IdPayload(op, id).val)

\* client.delete_match_event(id), client.clear_match_events(id),
\* client.mark_reporting_finished(id)
CallById(t, op, id) ==
    /\ Begin(t, IdFrame(op, id, cookies),
             IF IdPayload(op, id).ok
             THEN ApiEnter(IdFrame(op, id, cookies), <<>>, cookies)
             ELSE Raised(Raise("ValueError")))
    /\ UNCHANGED <<username, password, cookies, jar, active, posts, mlf, filterRun, chain, built>>

\* the log of a request and of the transport failing on it
Sent(lg, request, r) ==
    Append(lg, request) \o (IF r.kind = "exception" THEN <<"transport error">> ELSE <<>>)

\* mutant: the form and both hidden fields are required
FormMissingStrict(r) == ~r.form \/ ~(r.viewstate /\ r.eventvalidation)

\* if not form and not (viewstate and eventvalidation)
FormMissing(r) == ~r.form /\ ~(r.viewstate /\ r.eventvalidation)

\* login(): the GET of the login page and the parsing of the form
LoginGet(t, r) ==
    /\ t \in active
    /\ pc[t] = "login_get"
    /\ pageResp' = [pageResp EXCEPT ![t] = r]
    /\ IF r.kind = "exception"
       THEN /\ Step(t, LoginRaised(frame[t], Sent(log[t], "GET login page", r),
                                   LoginExcept(ConnectionError)))
            /\ jar' = jar
       ELSE IF RaisesForStatus(r.status)
       THEN /\ Step(t, LoginRaised(frame[t], Sent(log[t], "GET login page", r),
                                   LoginExcept(HTTPError)))
            /\ jar' = jar
       ELSE /\ jar' = IF CONSENT \in DOMAIN jar THEN jar
                      ELSE Merge(jar, CookieDict({CONSENT}, 0))
            /\ IF FormMissing(r)
               THEN Step(t, LoginRaised(frame[t], Sent(log[t], "GET login page", r),
                                        Raise("FogisLoginError")))
               ELSE Step(t, Goes("login_post", Sent(log[t], "GET login page", r)))
    /\ UNCHANGED <<username, password, cookies, active, frame, resp, postResp, calls, posts,
                   mlf, filterRun, chain, built>>

\* mutant: the redirect alone counts as success
LoginAcceptedAnyRedirect(r) == r.status = 302

\* the test of the response to the credential POST
LoginAccepted(r) == r.status = 302 /\ AUTH \in r.cookies

\* login(): the POST of the credentials, not following the redirect
LoginPost(t, r) ==
    /\ t \in active
    /\ pc[t] = "login_post"
    /\ posts' = posts + 1
    /\ postResp' = [postResp EXCEPT ![t] = r]
    /\ IF r.kind = "exception"
       THEN /\ Step(t, LoginRaised(frame[t], Sent(log[t], "POST credentials", r),
                                   LoginExcept(ConnectionError)))
            /\ jar' = jar
       ELSE /\ jar' = Merge(jar, CookieDict(r.cookies, posts'))
            /\ IF LoginAccepted(r)
               THEN IF r.location
                    THEN Step(t, Goes("login_redirect", Sent(log[t], "POST credentials", r)))
                    ELSE Step(t, LoginRaised(frame[t], Sent(log[t], "POST credentials", r),
                                             Raise("KeyError")))
               ELSE Step(t, LoginRaised(frame[t], Sent(log[t], "POST credentials", r),
                                        Raise("FogisLoginError")))
    /\ UNCHANGED <<username, password, cookies, active, frame, resp, pageResp, calls,
                   mlf, filterRun, chain, built>>

\* mutant: the token misses the cookie of the credential POST
SessionCookiesWithoutAuth(j) == [n \in (DOMAIN j) \ {AUTH} |-> j[n]]

\* the token made of the session's cookies
SessionCookies(j) == j

\* login(): the GET of the redirect target, then the token is taken from
\* the session's cookies
LoginRedirect(t, r) ==
    /\ t \in active
    /\ pc[t] = "login_redirect"
    /\ IF r.kind = "exception"
       THEN /\ Step(t, LoginRaised(frame[t], Sent(log[t], "GET redirect", r),
                                   LoginExcept(ConnectionError)))
            /\ cookies' = cookies
       ELSE IF RaisesForStatus(r.status)
       THEN /\ Step(t, LoginRaised(frame[t], Sent(log[t], "GET redirect", r),
                                   LoginExcept(HTTPError)))
            /\ cookies' = cookies
       ELSE /\ cookies' = SessionCookies(jar)
            /\ Step(t, LoginReturned(frame[t], Sent(log[t], "GET redirect", r),
                                     SessionCookies(jar)))
    /\ UNCHANGED <<username, password, jar, active, frame, resp, postResp, pageResp, calls,
                   posts, mlf, filterRun, chain, built>>

\* mutant: a failed request is sent once more
AfterRpcRetry(fr, lg, r) ==
    IF HandleResponse(r).kind = "FogisAPIRequestError"
       /\ Cardinality({i \in 1..Len(lg) : lg[i] = "RPC request"}) < 2
    THEN Goes("rpc", lg)
    ELSE Ended(fr.op, HandleResponse(r), lg)

\* _api_request after its request: the outcome of the one response
AfterRpc(fr, lg, r) == Ended(fr.op, HandleResponse(r), lg)

\* _api_request: the RPC request and the handling of its response
Rpc(t, r) ==
    /\ t \in active
    /\ pc[t] = "rpc"
    /\ resp' = [resp EXCEPT ![t] = r]
    /\ Step(t, AfterRpc(frame[t], Sent(log[t], "RPC request", r), r))
    /\ UNCHANGED <<username, password, cookies, jar, active, frame, postResp, pageResp,
                   calls, posts, mlf, filterRun, chain, built>>

(***************************************************************************)
(* What the portal may answer.                                             *)
(***************************************************************************)
TransportError(rec) == [rec EXCEPT !.kind = "exception"]

NoPage == [kind |-> "http", status |-> 500, form |-> FALSE, viewstate |-> FALSE,
           eventvalidation |-> FALSE]
PageResponses ==
    {TransportError(NoPage), NoPage}
    \cup [kind : {"http"}, status : {200}, form : BOOLEAN, viewstate : BOOLEAN,
          eventvalidation : BOOLEAN]

PostResponses ==
    {TransportError(NoPost)}
    \cup [kind : {"http"}, status : {200, 302, 500},
          cookies : {{}, {AUTH}, {AUTH, SESSIONID}}, location : BOOLEAN]

NoRedirect == [kind |-> "http", status |-> 500]
RedirectResponses ==
    {TransportError(NoRedirect), NoRedirect, [kind |-> "http", status |-> 200]}

\* the payloads of the portal
Payloads ==
    { EmptyDict, JArr(<<>>),
      Dict1(KeyMatchlista, JArr(<<>>)),
      Dict1(KeyMatchlista, JArr(<<Dict1(<<"i", "d">>, JNum(12))>>)),
      Dict1(KeyMatcher, JArr(<<>>)),
      Dict1(KeySuccess, JBool(TRUE)), Dict1(KeySuccess, JBool(FALSE)),
      Dict1(KeyD, JArr(<<>>)),
      Dict2(<<"a">>, JStr(<<"x", Q, BS>>), <<"b">>, JNull),
      JArr(<<JNum(1), EmptyDict>>), JArr(<<JStr(KeyD)>>),
      JStr(<<"o", "k">>), JStr(<<"1">>), JStr(<<"[", "]">>), JStr(<<>>),
      JStr(<<Q>>), JStr(KeyD), JStr(<<Q, "a", Q>>),
      JNull, JBool(TRUE), JNum(7) }

\* the three shapes of a response body: {"d": "<v as JSON text>"},
\* {"d": v}, and v with no envelope
StringEnvelope(v) == json_dumps(Dict1(KeyD, JStr(json_dumps(v))))
PlainEnvelope(v) == json_dumps(Dict1(KeyD, v))
NoEnvelope(v) == json_dumps(v)

\* bodies that are no JSON
BrokenBodies == {<<>>, <<"<", "h", "t", "m", "l", ">">>, <<"{", Q, "d", Q, ":">>}

Bodies ==
    {StringEnvelope(v) : v \in Payloads} \cup {PlainEnvelope(v) : v \in Payloads}
    \cup {NoEnvelope(v) : v \in Payloads} \cup BrokenBodies

NoRpc == [kind |-> "http", status |-> 500, body |-> <<>>, jsonErr |-> StdJSONDecodeError]
RpcResponses ==
    {TransportError(NoRpc), NoRpc, [NoRpc EXCEPT !.status = 404]}
    \cup {[kind |-> "http", status |-> 200, body |-> b, jsonErr |-> StdJSONDecodeError] :
            b \in Bodies}
    \cup {[kind |-> "http", status |-> 304, body |-> b, jsonErr |-> StdJSONDecodeError] :
            b \in BrokenBodies \cup {PlainEnvelope(EmptyDict)}}
    \cup {[kind |-> "http", status |-> 200, body |-> b, jsonErr |-> RequestsJSONDecodeError] :
            b \in {x \in Bodies : ~json_loads(x).ok}}

\* a dict given by its items
DictOf(items) ==
    JObj([k \in {items[i][1] : i \in 1..Len(items)} |->
             items[CHOOSE i \in 1..Len(items) : items[i][1] = k][2]])

\* the data a caller reports: ids as numbers and as texts, optional fields,
\* a field no operation converts, a missing field, a text that is no number
EventInputs ==
    { DictOf(<< <<KeyMatchid, JStr(<<"1", "2">>)>>, <<KeyHandelsekod, JNum(6)>>,
                <<KeyMinut, JNum(35)>>, <<KeyLagid, JStr(<<"7">>)>>,
                <<KeyLag, JStr(<<"7">>)>> >>),
      DictOf(<< <<KeyMatchid, JNum(12)>>, <<KeyHandelsekod, JStr(<<"6">>)>>,
                <<KeyMinut, JStr(<<SP, "3", "5">>)>>, <<KeyLagid, JNum(7)>>,
                <<KeyPersonid, JStr(<<"3">>)>>, <<KeyPeriod, JNull>>,
                <<KeyMatchhandelseid, JStr(<<"5", "5">>)>> >>),
      DictOf(<< <<KeyMatchid, JStr(<<"1", "2">>)>>, <<KeyHandelsekod, JNum(6)>>,
                <<KeyMinut, JNum(35)>> >>),
      DictOf(<< <<KeyMatchid, JStr(<<"x">>)>>, <<KeyHandelsekod, JNum(6)>>,
                <<KeyMinut, JNum(35)>>, <<KeyLagid, JNum(7)>> >>),
      EmptyDict }

ResultInputs ==
    { DictOf(<< <<KeyMatchid, JStr(<<"1", "2">>)>>, <<KeyHemmamal, JStr(<<"2">>)>>,
                <<KeyBortamal, JNum(1)>>, <<KeyHalvtidHemmamal, JNull>> >>),
      DictOf(<< <<KeyMatchid, JNum(12)>>, <<KeyHemmamal, JNum(2)>> >>) }

ActionInputs ==
    { DictOf(<< <<KeyMatchid, JStr(<<"1", "2">>)>>, <<KeyLagid, JStr(<<"7">>)>>,
                <<KeyPersonid, JStr(<<"3">>)>>,
                <<KeyMatchlagledaretypid, JStr(<<"2">>)>> >>),
      DictOf(<< <<KeyMatchid, JNum(12)>>, <<KeyLagid, JNum(7)>>,
                <<KeyPersonid, JNum(3)>>, <<KeyMatchlagledaretypid, JNum(2)>>,
                <<KeyMinut, JStr(<<"3", "5">>)>> >>),
      DictOf(<< <<KeyMatchid, JNum(12)>>, <<KeyLagid, JNum(7)>>,
                <<KeyMatchlagledaretypid, JNum(2)>> >>) }

ReportInputs(op) ==
    CASE op = "report_match_event" -> EventInputs
      [] op = "report_match_result" -> ResultInputs
      [] op = "report_team_official_action" -> ActionInputs

\* the ids a caller gives: a number, its text, nothing, and a text that is
\* no number
Ids == {JNum(12), JStr(<<"1", "2">>), JStr(<<>>), JNum(0), JNull, JStr(<<"x">>)}

Methods == {"POST", "GET", "post", "PUT"}
Endpoints == {"HamtaMatchLista", "GetMatch"}

Next ==
    \E t \in Threads :
        \/ CallLogin(t)
        \/ \E name \in Endpoints, m \in Methods : CallApiRequest(t, name, m)
        \/ CallValidateCookies(t)
        \/ \E op \in FetchOps : CallFetch(t, op)
        \/ \E r \in PageResponses : LoginGet(t, r)
        \/ \E r \in PostResponses : LoginPost(t, r)
        \/ \E r \in RedirectResponses : LoginRedirect(t, r)
        \/ \E r \in RpcResponses : Rpc(t, r)

Spec == Init /\ [][Next]_vars

\* The operations of the client that fetch, report, delete, clear and mark,
\* with the responses that tell them apart: every payload in the plain
\* envelope, an absent payload in its other encodings, a body that is no JSON
\* and the failures of the transport.
DomainBodies ==
    {PlainEnvelope(v) : v \in Payloads}
    \cup {StringEnvelope(JNull), NoEnvelope(Dict1(KeySuccess, JBool(TRUE))), <<>>}

DomainResponses ==
    {r \in RpcResponses :
        \/ r.kind = "exception"
        \/ r.status = 500
        \/ r.status = 200 /\ r.body \in DomainBodies}

NextDomain ==
    \E t \in Threads :
        \/ \E op \in FetchOps : CallFetch(t, op)
        \/ \E op \in ReportOps : \E data \in ReportInputs(op) : CallReport(t, op, data)
        \/ \E op \in IdOps, id \in Ids : CallById(t, op, id)
        \/ \E r \in PageResponses : LoginGet(t, r)
        \/ \E r \in PostResponses : LoginPost(t, r)
        \/ \E r \in RedirectResponses : LoginRedirect(t, r)
        \/ \E r \in DomainResponses : Rpc(t, r)

SpecDomain == Init /\ [][NextDomain]_vars

(***************************************************************************)
(* Two threads that share one client.  The client holds credentials and no *)
(* token; the portal answers the login requests with its login page, with  *)
(* an accepted or a refused credential POST and with the redirect target.  *)
(***************************************************************************)
LoginPage == [kind |-> "http", status |-> 200, form |-> TRUE, viewstate |-> TRUE,
              eventvalidation |-> TRUE]
PostAccepted == [kind |-> "http", status |-> 302, cookies |-> {AUTH, SESSIONID},
                 location |-> TRUE]
PostRefused == [kind |-> "http", status |-> 200, cookies |-> {}, location |-> FALSE]
RedirectTarget == [kind |-> "http", status |-> 200]
RpcAnswer == [kind |-> "http", status |-> 200, body |-> PlainEnvelope(EmptyDict),
              jsonErr |-> StdJSONDecodeError]

InitShared ==
    /\ \E up \in Usernames \X Passwords : Construct(up[1], up[2], NoCookies)
    /\ InitThreads(Threads)
    /\ ConstructFilter

NextShared ==
    \E t \in Threads :
        \/ CallLogin(t)
        \/ CallFetch(t, "fetch_match_json")
        \/ LoginGet(t, LoginPage)
        \/ \E r \in {PostAccepted, PostRefused} : LoginPost(t, r)
        \/ LoginRedirect(t, RedirectTarget)
        \/ \E r \in {RpcAnswer, TransportError(NoRpc)} : Rpc(t, r)

SpecShared == InitShared /\ [][NextShared]_vars

(***************************************************************************)
(* A client whose credentials the portal refuses: every credential POST is *)
(* answered, and none with the redirect that carries the authentication    *)
(* cookie.                                                                 *)
(***************************************************************************)
RefusedPosts == {r \in PostResponses : r.kind = "http" /\ ~LoginAccepted(r)}

InitRefused ==
    /\ \E up \in Usernames \X Passwords : Construct(up[1], up[2], NoCookies)
    /\ InitThreads({1})
    /\ ConstructFilter

NextRefused ==
    \E t \in Threads :
        \/ CallLogin(t)
        \/ \E op \in FetchOps : CallFetch(t, op)
        \/ LoginGet(t, LoginPage)
        \/ \E r \in RefusedPosts : LoginPost(t, r)

SpecRefused == InitRefused /\ [][NextRefused]_vars

(***************************************************************************)
(* Properties.                                                             *)
(***************************************************************************)
Count(lg, e) == Cardinality({i \in 1..Len(lg) : lg[i] = e})
Has(lg, e) == \E i \in 1..Len(lg) : lg[i] = e
\* login() raised the exception k
LoginFailedWith(lg, k) ==
    \E i \in 1..(Len(lg) - 1) : lg[i] = "login raised" /\ lg[i + 1] = k

\* the operations that hand on the outcome of _api_request
ApiOps == {"_api_request"} \cup FetchOps
LoginPcs == {"login_get", "login_post", "login_redirect"}

\* a fetch operation called on a client that holds no token
LazyCall(t) == frame[t].op \in FetchOps /\ frame[t].token = NoCookies

\* C1: a fetch operation called on a client without a token calls login()
\* exactly once, and login() has returned before the RPC request is sent.
C1_LazyLoginOnce ==
    \A t \in Threads :
        LazyCall(t) =>
            /\ Count(log[t], "login()") = 1
            /\ pc[t] = "rpc" => Has(log[t], "login returned")
            /\ \A i \in 1..Len(log[t]) :
                  log[t][i] = "RPC request" =>
                      \E j \in 1..(i - 1) : log[t][j] = "login returned"

C1_Witness ==
    \E t \in Threads :
        /\ LazyCall(t)
        /\ pc[t] = "done"
        /\ result[t].kind = "return"
        /\ Has(log[t], "RPC request")

\* C2: when the login inside _api_request raises FogisLoginError, or returns
\* and leaves the client without a token, the call ends with FogisLoginError
\* and has sent no RPC request.
C2_LazyLoginFailure ==
    \A t \in Threads :
        ( /\ frame[t].op \in ApiOps
          /\ \/ LoginFailedWith(log[t], "FogisLoginError")
             \/ Has(log[t], "login returned") /\ cookies = NoCookies )
        => /\ pc[t] = "done"
           /\ result[t].kind = "FogisLoginError"
           /\ ~Has(log[t], "RPC request")

C2_Witness ==
    \E t \in Threads :
        /\ frame[t].op \in FetchOps
        /\ LoginFailedWith(log[t], "FogisLoginError")
        /\ Has(log[t], "POST credentials")
        /\ pc[t] = "done"

\* C3: while the client holds a token, no step changes the token, submits
\* credentials or puts a thread into login's requests.
C3_TokenNeverReplaced ==
    [][cookies # NoCookies =>
          /\ cookies' = cookies
          /\ posts' = posts
          /\ \A t \in Threads : pc'[t] \notin LoginPcs]_vars

C3_Witness ==
    \E t \in Threads :
        /\ frame[t].op = "validate_cookies"
        /\ frame[t].token # NoCookies
        /\ calls[t] = 2
        /\ pc[t] = "done"
        /\ result[t] = Return(JBool(FALSE))
        /\ cookies = frame[t].token
\* the credential POST of the operation of t was answered
Submitted(t) == Has(log[t], "POST credentials") /\ postResp[t].kind = "http"
\* the answer is a 302 that carries the authentication cookie
Accepting(r) == r.status = 302 /\ AUTH \in r.cookies

Answered(t) ==
    /\ frame[t].op = "_api_request"
    /\ pc[t] = "done"
    /\ resp[t].kind = "http"
    /\ ~(400 <= resp[t].status /\ resp[t].status < 600)

\* C6: for every object or array v, the body {"d": "<v as JSON text>"} and the
\* body {"d": v} both make _api_request return v.
C6_UnwrapEncodingIndependent ==
    \A t \in Threads :
        Answered(t) =>
            \A v \in Payloads :
                ( /\ IsDict(v) \/ IsList(v)
                  /\ resp[t].body \in {StringEnvelope(v), PlainEnvelope(v)} )
                => result[t] = Return(v)

C6_Witness ==
    \E t \in Threads :
        /\ Answered(t)
        /\ resp[t].body = StringEnvelope(Dict2(<<"a">>, JStr(<<"x", Q, BS>>), <<"b">>, JNull))
        /\ result[t] = Return(Dict2(<<"a">>, JStr(<<"x", Q, BS>>), <<"b">>, JNull))

C8_ErrorKinds ==
    \A t \in Threads :
        (frame[t].op \in ApiOps \cup {"login"} /\ pc[t] = "done") =>
            /\ ( \/ resp[t].kind = "exception"
                 \/ resp[t].kind = "http" /\ ~(200 <= resp[t].status /\ resp[t].status < 300) )
                  => result[t].kind = "FogisAPIRequestError"
            /\ (resp[t].kind = "none" /\ Has(log[t], "transport error"))
                  => result[t].kind = "FogisAPIRequestError"
            /\ ( /\ resp[t].kind = "http"
                 /\ 200 <= resp[t].status /\ resp[t].status < 300
                 /\ ~json_loads(resp[t].body).ok )
                  => result[t].kind = "FogisDataError"

\* the call of t passes the authentication and asks for POST or GET
ReachesTransport(t) ==
    /\ frame[t].op \in ApiOps \cup {"validate_cookies"}
    /\ ~TestMock(frame[t])
    /\ frame[t].token # NoCookies \/ Has(log[t], "login returned")
    /\ Upper(frame[t].method) \in {"POST", "GET"}

\* C9: an operation sends at most one RPC request and submits the credentials
\* at most once, and a call that reaches the transport and has ended, however
\* it ended and whatever preceded it, has sent exactly one RPC request.
C9_NoRetry ==
    \A t \in Threads :
        /\ Count(log[t], "RPC request") <= 1
        /\ Count(log[t], "POST credentials") <= 1
        /\ Count(log[t], "GET login page") <= 1
        /\ (ReachesTransport(t) /\ pc[t] = "done") => Count(log[t], "RPC request") = 1

C9_Witness ==
    \E t \in Threads :
        /\ calls[t] > 1
        /\ ReachesTransport(t)
        /\ pc[t] = "done"
        /\ resp[t].kind = "exception"
        /\ result[t].kind = "FogisAPIRequestError"
        /\ Count(log[t], "RPC request") = 1

\* C10 (as claimed): _api_request with a method other than POST or GET, on a
\* client that holds a token, raises FogisAPIRequestError and sends no request.
C10_UnsupportedMethod ==
    \A t \in Threads :
        ( /\ frame[t].op = "_api_request"
          /\ frame[t].token # NoCookies
          /\ ~TestMock(frame[t])
          /\ Upper(frame[t].method) \notin {"POST", "GET"}
          /\ pc[t] = "done" )
        => /\ result[t].kind = "FogisAPIRequestError"
           /\ log[t] = <<>>

(***************************************************************************)
(* A MatchListFilter from its construction over the calls of its builder   *)
(* methods to its filter_matches call.                                     *)
(***************************************************************************)
clientVars == <<username, password, cookies, jar, active, pc, frame, result, log, resp,
                postResp, pageResp, calls, posts>>

\* the filter may be given the fields of f
CanConfigure(f) ==
    /\ ~filterRun.run
    /\ ~built.run
    /\ \A t \in active : frame[t].op # "fetch_filtered_matches"
    /\ Len(chain) < MaxConfigured
    /\ Cardinality({k \in DOMAIN f : f[k].set}) <= MaxConfigured

include_statuses(statuses) ==
    /\ CanConfigure([mlf EXCEPT !.status_include = Listed(statuses)])
    /\ mlf' = [mlf EXCEPT !.status_include = Listed(statuses)]
    /\ chain' = Append(chain, "include_statuses")
    /\ UNCHANGED <<filterRun, built, clientVars>>

exclude_statuses(statuses) ==
    /\ CanConfigure([mlf EXCEPT !.status_exclude = Listed(statuses)])
    /\ mlf' = [mlf EXCEPT !.status_exclude = Listed(statuses)]
    /\ chain' = Append(chain, "exclude_statuses")
    /\ UNCHANGED <<filterRun, built, clientVars>>

include_age_categories(age_categories) ==
    /\ CanConfigure([mlf EXCEPT !.alderskategori_include = Listed(age_categories)])
    /\ mlf' = [mlf EXCEPT !.alderskategori_include = Listed(age_categories)]
    /\ chain' = Append(chain, "include_age_categories")
    /\ UNCHANGED <<filterRun, built, clientVars>>

exclude_age_categories(age_categories) ==
    /\ CanConfigure([mlf EXCEPT !.alderskategori_exclude = Listed(age_categories)])
    /\ mlf' = [mlf EXCEPT !.alderskategori_exclude = Listed(age_categories)]
    /\ chain' = Append(chain, "exclude_age_categories")
    /\ UNCHANGED <<filterRun, built, clientVars>>

include_genders(genders) ==
    /\ CanConfigure([mlf EXCEPT !.kon_include = Listed(genders)])
    /\ mlf' = [mlf EXCEPT !.kon_include = Listed(genders)]
    /\ chain' = Append(chain, "include_genders")
    /\ UNCHANGED <<filterRun, built, clientVars>>

exclude_genders(genders) ==
    /\ CanConfigure([mlf EXCEPT !.kon_exclude = Listed(genders)])
    /\ mlf' = [mlf EXCEPT !.kon_exclude = Listed(genders)]
    /\ chain' = Append(chain, "exclude_genders")
    /\ UNCHANGED <<filterRun, built, clientVars>>

include_football_types(football_types) ==
    /\ CanConfigure([mlf EXCEPT !.fotbollstypid_include = Listed(football_types)])
    /\ mlf' = [mlf EXCEPT !.fotbollstypid_include = Listed(football_types)]
    /\ chain' = Append(chain, "include_football_types")
    /\ UNCHANGED <<filterRun, built, clientVars>>

exclude_football_types(football_types) ==
    /\ CanConfigure([mlf EXCEPT !.fotbollstypid_exclude = Listed(football_types)])
    /\ mlf' = [mlf EXCEPT !.fotbollstypid_exclude = Listed(football_types)]
    /\ chain' = Append(chain, "exclude_football_types")
    /\ UNCHANGED <<filterRun, built, clientVars>>

\* filter.filter_matches(matches)
FilterMatches(matches) ==
    /\ ~filterRun.run
    /\ filterRun' = [run |-> TRUE, matches |-> matches,
                     filtered |-> filter_matches(mlf, matches)]
    /\ UNCHANGED <<mlf, chain, built, clientVars>>

\* create_test_matches: match i of the synthetic data of the tests
TestStatuses == <<CANCELLED, POSTPONED, INTERRUPTED, COMPLETED, NOT_STARTED>>
TestAgeCategories == <<2, 3, 4, 5, 1>>
TestGenders == <<2, 3, 4>>
TestFootballTypes == <<1, 2>>
TestMatch(i) ==
    Match(1000 + i, TestStatuses[(i % 5) + 1], TestAgeCategories[(i % 5) + 1],
          TestGenders[(i % 3) + 1], TestFootballTypes[(i % 2) + 1])
TestMatches == {TestMatch(i) : i \in 0..4}

\* the lists given to filter_matches
MatchLists == UNION {[1..n -> TestMatches] : n \in 0..MaxMatches}

\* the lists given to the builder methods
StatusLists ==
    {<<>>, <<CANCELLED>>, <<CANCELLED, POSTPONED>>, <<COMPLETED>>, <<NOT_STARTED>>}
AgeLists == {<<3>>, <<3, 4>>}
GenderLists == {<<3>>}
FootballTypeLists == {<<2>>}

InitFilter ==
    /\ \E up \in Usernames \X Passwords : Construct(up[1], up[2], NoCookies)
    /\ InitThreads({})
    /\ ConstructFilter

NextFilter ==
    \/ \E l \in StatusLists : include_statuses(l)
    \/ \E l \in StatusLists : exclude_statuses(l)
    \/ \E l \in AgeLists : include_age_categories(l)
    \/ \E l \in AgeLists : exclude_age_categories(l)
    \/ \E l \in GenderLists : include_genders(l)
    \/ \E l \in GenderLists : exclude_genders(l)
    \/ \E l \in FootballTypeLists : include_football_types(l)
    \/ \E l \in FootballTypeLists : exclude_football_types(l)
    \/ \E ms \in MatchLists : FilterMatches(ms)

SpecFilter == InitFilter /\ [][NextFilter]_vars

(***************************************************************************)
(* The server-side phase: the date builder methods and build_payload.      *)
(***************************************************************************)
start_date(date) ==
    /\ CanConfigure([mlf EXCEPT !.datum_fran = Listed(date)])
    /\ mlf' = [mlf EXCEPT !.datum_fran = Listed(date)]
    /\ chain' = Append(chain, "start_date")
    /\ UNCHANGED <<filterRun, built, clientVars>>

end_date(date) ==
    /\ CanConfigure([mlf EXCEPT !.datum_till = Listed(date)])
    /\ mlf' = [mlf EXCEPT !.datum_till = Listed(date)]
    /\ chain' = Append(chain, "end_date")
    /\ UNCHANGED <<filterRun, built, clientVars>>

date_range_type(type) ==
    /\ CanConfigure([mlf EXCEPT !.datum_typ = Listed(type)])
    /\ mlf' = [mlf EXCEPT !.datum_typ = Listed(type)]
    /\ chain' = Append(chain, "date_range_type")
    /\ UNCHANGED <<filterRun, built, clientVars>>

saved_datum(date) ==
    /\ CanConfigure([mlf EXCEPT !.sparad_datum = Listed(date)])
    /\ mlf' = [mlf EXCEPT !.sparad_datum = Listed(date)]
    /\ chain' = Append(chain, "saved_datum")
    /\ UNCHANGED <<filterRun, built, clientVars>>

\* filter.build_payload()
BuildPayload ==
    /\ ~built.run
    /\ built' = [run |-> TRUE, result |-> Return(build_payload(mlf))]
    /\ UNCHANGED <<mlf, filterRun, chain, clientVars>>

\* the dates given to the builder methods: two dates, an empty str, and a
\* number where a str is expected
January == JStr(<<"2", "0", "2", "5", "-", "0", "1", "-", "0", "1">>)
February == JStr(<<"2", "0", "2", "5", "-", "0", "2", "-", "0", "1">>)
DateArgs == {January, February, JStr(<<>>), JNum(20250101)}

NextPayload ==
    \/ \E l \in StatusLists : include_statuses(l)
    \/ \E l \in StatusLists : exclude_statuses(l)
    \/ \E l \in AgeLists : include_age_categories(l)
    \/ \E l \in AgeLists : exclude_age_categories(l)
    \/ \E l \in GenderLists : include_genders(l)
    \/ \E l \in GenderLists : exclude_genders(l)
    \/ \E l \in FootballTypeLists : include_football_types(l)
    \/ \E l \in FootballTypeLists : exclude_football_types(l)
    \/ \E d \in DateArgs : start_date(d)
    \/ \E d \in DateArgs : end_date(d)
    \/ date_range_type(JNum(1))
    \/ saved_datum(January)
    \/ BuildPayload

SpecPayload == InitFilter /\ [][NextPayload]_vars

(***************************************************************************)
(* The match list: fetch_matches_list_json with the filter of a caller and *)
(* fetch_filtered_matches of a MatchListFilter, on one client that was     *)
(* given the cookies of a session.                                         *)
(***************************************************************************)
\* fetch_matches_list_json(filter), called with self.cookies = ck, that reads
\* the clock as `clock`
MatchesFrame(op, filter, clock, ck) ==
    [Request(FetchFrame("fetch_matches_list_json", ck), filter,
             MatchesPayload(filter, clock))
        EXCEPT !.op = op, !.clock = clock]

\* client.fetch_matches_list_json(filter)
CallFetchMatchesList(t, filter, clock) ==
    /\ Begin(t, MatchesFrame("fetch_matches_list_json", filter, clock, cookies),
             ApiEnter(MatchesFrame("fetch_matches_list_json", filter, clock, cookies),
                      <<"fetch_matches_list_json()">>, cookies))
    /\ UNCHANGED <<username, password, cookies, jar, active, posts, mlf, filterRun, chain, built>>

\* mlf.fetch_filtered_matches(client)
CallFetchFiltered(t, clock) ==
    /\ ~filterRun.run
    /\ ~built.run
    /\ Begin(t, MatchesFrame("fetch_filtered_matches", build_payload(mlf), clock, cookies),
             ApiEnter(MatchesFrame("fetch_filtered_matches", build_payload(mlf), clock,
                                   cookies),
                      <<"build_payload()", "fetch_matches_list_json()">>, cookies))
    /\ UNCHANGED <<username, password, cookies, jar, active, posts, mlf, filterRun, chain, built>>

\* the readings of the clock of one call, in their order: the call may run
\* over midnight
NewYearsEve == DayOfDate(2023, 12, 31)
FirstOfMarch == DayOfDate(2023, 3, 1)
Clocks ==
    {<<d, d, d>> : d \in {NewYearsEve, FirstOfMarch}}
        \cup {<<NewYearsEve, NewYearsEve, NewYearsEve + 1>>}

\* the filters of the callers: none, an empty one, a date range, a status
\* list, and a key that is no key of the defaults

CallerFilters ==
    {JNull, EmptyDict,
     Dict2(KeyDatumFran, January, KeyDatumTill, February),
     Dict1(KeyStatus, StatusValues(<<COMPLETED>>)),
     Dict2(KeyDatumTyp, JStr(<<"m", "a", "t", "c", "h">>), KeyLagid, JNum(7))}

\* the matches of the portal
JsonMatch(id, installd, age) ==
    DictOf(<< <<KeyMatchid, JNum(id)>>, <<KeyInstalld, JBool(installd)>>,
              <<KeyTavlingAlderskategori, JNum(age)>> >>)
PortalMatches == <<JsonMatch(1, TRUE, 3), JsonMatch(2, FALSE, 4)>>

\* the answers to the GetMatcherAttRapportera request
MatchesResponses ==
    {TransportError(NoRpc)} \cup
    {[kind |-> "http", status |-> 200, body |-> PlainEnvelope(v),
      jsonErr |-> StdJSONDecodeError] :
        v \in {Dict1(KeyMatchlista, JArr(PortalMatches)),
               Dict1(KeyMatchlista, JArr(<<>>)),
               Dict1(KeyMatchlista, JNull),
               Dict1(KeyMatchlista, JNum(7)),
               JNull}}

InitMatches ==
    /\ Construct(<<"r", "e", "f">>, <<"p", "w">>, CookieDict({AUTH}, 0))
    /\ InitThreads({1})
    /\ ConstructFilter

NextMatches ==
    \/ \E l \in {<<CANCELLED>>, <<COMPLETED>>} : include_statuses(l)
    \/ \E l \in {<<3>>} : include_age_categories(l)
    \/ start_date(January)
    \/ \E t \in Threads, f \in CallerFilters, c \in Clocks : CallFetchMatchesList(t, f, c)
    \/ \E t \in Threads, c \in Clocks : CallFetchFiltered(t, c)
    \/ \E t \in Threads, r \in MatchesResponses : Rpc(t, r)

SpecMatches == InitMatches /\ [][NextMatches]_vars

\* the operations built on _api_request, other than validate_cookies
DomainOps == FetchOps \cup ReportOps \cup IdOps
ErrorKinds == {"FogisLoginError", "FogisAPIRequestError", "FogisDataError"}

\* C11 (as claimed): an operation whose login or whose RPC request raises
\* FogisLoginError, FogisAPIRequestError or FogisDataError ends by raising
\* that same error; so delete_match_event raises FogisAPIRequestError when
\* its RPC request fails.
C11_ErrorsReachCaller ==
    \A t \in Threads :
        (frame[t].op \in DomainOps /\ pc[t] = "done") =>
            /\ \A k \in ErrorKinds :
                  LoginFailedWith(log[t], k) => result[t].kind = k
            /\ (resp[t].kind # "none" /\ HandleResponse(resp[t]).kind \in ErrorKinds)
                  => result[t].kind = HandleResponse(resp[t]).kind

\* the login page of the operation of t arrived and passed raise_for_status
PageFetched(t) == pageResp[t].kind = "http" /\ ~(400 <= pageResp[t].status /\ pageResp[t].status < 600)

\* C12 (as claimed): when the login page has no form, or lacks __VIEWSTATE or
\* __EVENTVALIDATION, login() raises FogisLoginError and sends no POST.
C12_NoFormNoPost ==
    \A t \in Threads :
        ( /\ PageFetched(t)
          /\ ~pageResp[t].form \/ ~pageResp[t].viewstate \/ ~pageResp[t].eventvalidation )
        => /\ LoginFailedWith(log[t], "FogisLoginError")
           /\ ~Has(log[t], "POST credentials")
           /\ pc[t] # "login_post"

\* C12 (amended): login() raises FogisLoginError and sends no POST exactly
\* when the login page has no form and also lacks __VIEWSTATE or
\* __EVENTVALIDATION; with a form, or with both fields, it goes on to POST
\* the credentials.
C12_FormOrFields ==
    \A t \in Threads :
        PageFetched(t) =>
            IF ~pageResp[t].form /\ ~(pageResp[t].viewstate /\ pageResp[t].eventvalidation)
            THEN /\ LoginFailedWith(log[t], "FogisLoginError")
                 /\ ~Has(log[t], "POST credentials")
                 /\ pc[t] = "done"
                 /\ postResp[t] = NoPost
                 /\ frame[t].op = "login" => result[t].kind = "FogisLoginError"
            ELSE pc[t] = "login_post" \/ Has(log[t], "POST credentials")

C12_Witness ==
    \E t \in Threads :
        /\ frame[t].op = "login"
        /\ PageFetched(t)
        /\ ~pageResp[t].form /\ pageResp[t].viewstate /\ ~pageResp[t].eventvalidation
        /\ result[t].kind = "FogisLoginError"
        /\ ~Has(log[t], "POST credentials")

\* the call of t is a report whose data misses a field the operation
\* requires, or a mark_reporting_finished with an empty match_id
HasKeys(d, keys) == keys \subseteq DOMAIN d[2]
InvalidCall(t) ==
    \/ /\ frame[t].op = "report_match_event"
       /\ ~HasKeys(frame[t].args, {KeyMatchid, KeyHandelsekod, KeyMinut, KeyLagid})
    \/ /\ frame[t].op = "report_match_result"
       /\ ~HasKeys(frame[t].args, {KeyMatchid, KeyHemmamal, KeyBortamal})
    \/ /\ frame[t].op = "report_team_official_action"
       /\ ~HasKeys(frame[t].args, {KeyMatchid, KeyLagid, KeyPersonid, KeyMatchlagledaretypid})
    \/ /\ frame[t].op = "mark_reporting_finished"
       /\ frame[t].args \in {JStr(<<>>), JNull, JNum(0)}

IsNumericText(v) == IsStr(v) /\ v[2] # <<>> /\ \A i \in 1..Len(v[2]) : IsDigit(v[2][i])

\* the id and number fields of the data of a report operation
IdFields(op) ==
    CASE op = "report_match_event" ->
            {KeyMatchid, KeyHandelsekod, KeyMinut, KeyLagid, KeyPersonid,
             KeyAssisterandeid, KeyPeriod, KeyResultatHemma, KeyResultatBorta}
      [] op = "report_match_result" ->
            {KeyMatchid, KeyHemmamal, KeyBortamal, KeyHalvtidHemmamal, KeyHalvtidBortamal}
      [] op = "report_team_official_action" ->
            {KeyMatchid, KeyLagid, KeyPersonid, KeyMatchlagledaretypid, KeyMinut}

\* `sent` is what an id or number field given as `given` is transmitted as:
\* the integer written by a text of digits, and any value that is no text
\* as it is
SentAsInteger(given, sent) ==
    IF IsNumericText(given) THEN Tag(sent) = "num" /\ NumText(sent[2]) = given[2]
    ELSE IF IsStr(given) THEN Tag(sent) = "num"
    ELSE sent = given

ExpectedShapes(op) ==
    CASE op \in {"fetch_match_events_json", "fetch_team_officials_json"} -> {"arr"}
      [] op = "fetch_match_result_json" -> {"obj", "arr"}
      [] OTHER -> {"obj"}

ShapeOps == (FetchOps \ {"fetch_team_players_json"}) \cup ReportOps

\* _api_request returned a payload to the operation of t
GotPayload(t) ==
    /\ pc[t] = "done"
    /\ resp[t].kind = "http"
    /\ HandleResponse(resp[t]).kind = "return"

\* C15 (as claimed): each fetch and report operation returns when the payload
\* has a shape it expects and raises FogisDataError when it has another.
C15_ShapeChecked ==
    \A t \in Threads :
        (frame[t].op \in ShapeOps /\ GotPayload(t)) =>
            IF Tag(HandleResponse(resp[t]).val) \in ExpectedShapes(frame[t].op)
            THEN result[t].kind = "return"
            ELSE result[t].kind = "FogisDataError"

\* the operation of t got a 200 response with one of the bodies
GotBody(t, bodies) ==
    /\ pc[t] = "done"
    /\ resp[t].kind = "http"
    /\ resp[t].status = 200
    /\ resp[t].body \in bodies

\* the bodies of an absent payload, of {"success": true}, of {"success": false}
AbsentBodies == {PlainEnvelope(JNull), StringEnvelope(JNull)}
SuccessBodies ==
    {PlainEnvelope(Dict1(KeySuccess, JBool(TRUE))), NoEnvelope(Dict1(KeySuccess, JBool(TRUE)))}
FailureBodies == {PlainEnvelope(Dict1(KeySuccess, JBool(FALSE)))}

\* C16: delete_match_event returns True when _api_request yields None and
\* when it yields {"success": true}, and False when it yields
\* {"success": false}.
C16_DeleteResult ==
    \A t \in Threads :
        frame[t].op = "delete_match_event" =>
            /\ GotBody(t, AbsentBodies \cup SuccessBodies) => result[t] = Return(JBool(TRUE))
            /\ GotBody(t, FailureBodies) => result[t] = Return(JBool(FALSE))
            /\ (GotPayload(t) /\ Tag(HandleResponse(resp[t]).val) = "null")
                  => result[t] = Return(JBool(TRUE))

C16_Witness ==
    \E t \in Threads :
        /\ frame[t].op = "delete_match_event"
        /\ GotBody(t, {PlainEnvelope(JNull)})
        /\ Has(log[t], "RPC request")
        /\ result[t] = Return(JBool(TRUE))

\* C17 (as claimed): clear_match_events returns True when _api_request yields
\* None and when it yields {"success": true}.
C17_ClearResult ==
    \A t \in Threads :
        (frame[t].op = "clear_match_events" /\ GotBody(t, AbsentBodies \cup SuccessBodies))
            => result[t] = Return(JBool(TRUE))

\* the status of a match: the status whose flag it carries, not-started
\* where it carries none
MatchStatusOf(match) ==
    IF match.installd THEN CANCELLED
    ELSE IF match.avbruten THEN INTERRUPTED
    ELSE IF match.uppskjuten THEN POSTPONED
    ELSE IF match.arslutresultat THEN COMPLETED
    ELSE NOT_STARTED

\* filter_matches has run on a filter with exactly the fields `names` configured
RanWith(names) ==
    /\ filterRun.run
    /\ \A k \in DOMAIN mlf : mlf[k].set <=> k \in names

\* C18 (as claimed): include_statuses(S).filter_matches returns the input
\* matches whose status lies in S, in input order.
C18_IncludeStatuses ==
    RanWith({"status_include"}) =>
        filterRun.filtered =
            SelectSeq(filterRun.matches,
                      LAMBDA m : MatchStatusOf(m) \in ValueSet(mlf.status_include.values))

\* C19 (as claimed): exclude_statuses(S).filter_matches returns the input
\* matches whose status does not lie in S, so none whose status lies in S.
C19_ExcludeStatuses ==
    RanWith({"status_exclude"}) =>
        filterRun.filtered =
            SelectSeq(filterRun.matches,
                      LAMBDA m : MatchStatusOf(m) \notin ValueSet(mlf.status_exclude.values))

\* the filter f without the exclude list of every field that has an include list
IncludeOnly(f) ==
    [f EXCEPT
        !.status_exclude = IF f.status_include.set THEN None ELSE @,
        !.alderskategori_exclude = IF f.alderskategori_include.set THEN None ELSE @,
        !.kon_exclude = IF f.kon_include.set THEN None ELSE @,
        !.fotbollstypid_exclude = IF f.fotbollstypid_include.set THEN None ELSE @]

\* C20 (as claimed): a filter with an include list and an exclude list for
\* the same field returns what it returns without that exclude list.
C20_IncludePrecedence ==
    (filterRun.run /\ IncludeOnly(mlf) # mlf) =>
        filterRun.filtered = filter_matches(IncludeOnly(mlf), filterRun.matches)

\* the fields of the filter f that a builder method has set
Configured(f) == {k \in DOMAIN f : f[k].set}

\* the filter that has the field k of f and no other
Single(f, k) == [j \in DOMAIN f |-> IF j = k THEN f[k] ELSE None]

\* m is one of the matches of the list ms
InList(m, ms) == \E i \in 1..Len(ms) : ms[i] = m

\* C21: filter_matches returns the matches of its argument that each
\* single-field filter of the configured fields returns (the intersection of
\* the single-field results, in input order), whatever the order in which the
\* builder methods were called.
C21_FieldsIndependent ==
    filterRun.run =>
        filterRun.filtered =
            SelectSeq(filterRun.matches,
                      LAMBDA m : \A k \in Configured(mlf) :
                          InList(m, filter_matches(Single(mlf, k), filterRun.matches)))

\* age category configured before status (filter_matches tests status first);
\* each of the two single-field filters returns a match, the two together none
C21_Witness ==
    /\ filterRun.run
    /\ chain = <<"include_age_categories", "include_statuses">>
    /\ filter_matches(Single(mlf, "status_include"), filterRun.matches) # <<>>
    /\ filter_matches(Single(mlf, "alderskategori_include"), filterRun.matches) # <<>>
    /\ filterRun.filtered = <<>>

\* C22: a filter with no field configured returns from filter_matches a list
\* equal to its argument: the same matches in the same order.
C22_Identity ==
    (filterRun.run /\ Configured(mlf) = {}) =>
        filterRun.filtered = filterRun.matches

C22_Witness ==
    /\ filterRun.run
    /\ chain = <<>>
    /\ Len(filterRun.matches) >= 2
    /\ filterRun.matches[1] # filterRun.matches[2]

\* the keys of the date range and the attribute of the filter each comes from
DateKeys == {KeyDatumFran, KeyDatumTill, KeyDatumTyp, KeySparadDatum}
DateField(f, k) ==
    CASE k = KeyDatumFran -> f.datum_fran
      [] k = KeyDatumTill -> f.datum_till
      [] k = KeyDatumTyp -> f.datum_typ
      [] k = KeySparadDatum -> f.sparad_datum

\* C23 (as claimed): build_payload() returns a dict that holds date-range keys
\* only, each with the value a builder method was given for it; so no status,
\* age-category, gender or football-type criteria, and an empty dict for a
\* filter with nothing configured.
C23_MinimalPayload ==
    built.run =>
        /\ built.result.kind = "return"
        /\ DOMAIN built.result.val[2] \subseteq DateKeys
        /\ \A k \in DOMAIN built.result.val[2] :
              /\ DateField(mlf, k).set
              /\ built.result.val[2][k] = DateField(mlf, k).values

\* the date a, a text YYYY-MM-DD, is later than the date b
Later(a, b) ==
    /\ Len(a) = Len(b)
    /\ \E i \in 1..Len(a) :
          /\ IsDigit(a[i]) /\ IsDigit(b[i]) /\ DigitVal(a[i]) > DigitVal(b[i])
          /\ \A j \in 1..(i - 1) : a[j] = b[j]

\* what is wrong with the configuration f: a date that is no str, a start
\* date after the end date
Violations(f) ==
    {k \in {"datum_fran", "datum_till"} : f[k].set /\ ~IsStr(f[k].values)}
    \cup {k \in {"date order"} :
              /\ f.datum_fran.set /\ IsStr(f.datum_fran.values)
              /\ f.datum_till.set /\ IsStr(f.datum_till.values)
              /\ Later(f.datum_fran.values[2], f.datum_till.values[2])}

\* C24 (as claimed): building a filter whose configuration has violations
\* ends in one validation error that reports all of them; no payload is
\* returned.
C24_AggregatedValidation ==
    (built.run /\ Violations(mlf) # {}) =>
        /\ built.result.kind = "ValidationError"
        /\ built.result.val = Violations(mlf)

\* C27: validate_cookies() never calls login() and leaves the token as it is;
\* without a token it returns False and sends no request; with a token it
\* sends one RPC request and returns True when _api_request returns, False
\* when _api_request raises FogisLoginError or FogisAPIRequestError.
C27_ValidateCookies ==
    \A t \in Threads :
        frame[t].op = "validate_cookies" =>
            /\ ~Has(log[t], "login()")
            /\ pc[t] \notin LoginPcs
            /\ cookies = frame[t].token
            /\ frame[t].token = NoCookies =>
                  /\ pc[t] = "done"
                  /\ result[t] = Return(JBool(FALSE))
                  /\ log[t] = <<>>
            /\ (frame[t].token # NoCookies /\ pc[t] = "done") =>
                  /\ Count(log[t], "RPC request") = 1
                  /\ HandleResponse(resp[t]).kind = "return"
                        => result[t] = Return(JBool(TRUE))
                  /\ HandleResponse(resp[t]).kind \in {"FogisLoginError", "FogisAPIRequestError"}
                        => result[t] = Return(JBool(FALSE))

\* a token that the portal answers with a payload, after a call without one
C27_Witness ==
    \E t \in Threads :
        /\ frame[t].op = "validate_cookies"
        /\ frame[t].token # NoCookies
        /\ pc[t] = "done"
        /\ resp[t].kind = "http"
        /\ resp[t].status = 200
        /\ result[t] = Return(JBool(TRUE))
        /\ log[t] = <<"RPC request">>

\* the call of t found the client without a token at the lazy login of
\* _api_request
ObservedAbsent(t) ==
    /\ frame[t].op \in FetchOps
    /\ frame[t].token = NoCookies
    /\ ~TestMock(frame[t])

\* C28: the lazy login is not exclusive. Every RPC call that finds the token
\* absent enters login() itself, whatever the other thread is doing; so two
\* calls that both find it absent both authenticate (the witness).
C28_LazyLoginNotExclusive ==
    \A t \in Threads :
        ObservedAbsent(t) =>
            /\ Count(log[t], "login()") = 1
            /\ pc[t] \in LoginPcs \/ Has(log[t], "GET login page")

\* both threads found the token absent and each has submitted the credentials:
\* two logins for one client
C28_Witness ==
    /\ \A t \in Threads :
          /\ ObservedAbsent(t)
          /\ calls[t] = 1
          /\ Has(log[t], "POST credentials")
          /\ postResp[t] = PostAccepted
    /\ posts = 2
    /\ pc[1] = "login_redirect"
    /\ pc[2] = "login_redirect"

\* C29: a failed login is not terminal. While the portal refuses the
\* credentials the client stays without a token, every login() call and every
\* RPC call enters login() once and submits the credentials once, and ends
\* with FogisLoginError before any RPC request: after k calls the portal has
\* received the credentials k times.
C29_LoginFailureNotTerminal ==
    /\ cookies = NoCookies
    /\ \A t \in active :
          /\ pc[t] # "idle" =>
                /\ frame[t].token = NoCookies
                /\ Count(log[t], "login()") = 1
                /\ ~Has(log[t], "RPC request")
          /\ pc[t] = "done" =>
                /\ result[t].kind = "FogisLoginError"
                /\ Count(log[t], "POST credentials") = 1
                /\ posts = calls[t]
          /\ pc[t] \in {"login_get", "login_post"} => posts = calls[t] - 1

\* the second call in a row that the portal has refused, an RPC call
C29_Witness ==
    \E t \in active :
        /\ calls[t] = 2
        /\ posts = 2
        /\ frame[t].op \in FetchOps
        /\ pc[t] = "done"
        /\ result[t].kind = "FogisLoginError"
        /\ LoginFailedWith(log[t], "FogisLoginError")

\* C30 (as claimed): an _api_request call whose RPC response has a 2xx status
\* and a body that is JSON, of any type, returns a payload or raises
\* FogisLoginError, FogisAPIRequestError or FogisDataError.
C30_ErrorTaxonomy ==
    \A t \in Threads :
        ( /\ frame[t].op = "_api_request"
          /\ pc[t] = "done"
          /\ resp[t].kind = "http"
          /\ 200 <= resp[t].status /\ resp[t].status < 300
          /\ json_loads(resp[t].body).ok )
        => result[t].kind \in {"return"} \cup ErrorKinds

\* the day number a value names as "YYYY-MM-DD"; -1 for any other value
DayOfText(v) ==
    IF /\ IsStr(v)
       /\ Len(v[2]) = 10
       /\ \A i \in 1..10 : IF i \in {5, 8} THEN v[2][i] = "-" ELSE IsDigit(v[2][i])
    THEN DayOfDate(DecimalValue(SubSeq(v[2], 1, 4), 0),
                   DecimalValue(SubSeq(v[2], 6, 7), 0),
                   DecimalValue(SubSeq(v[2], 9, 10), 0))
    ELSE -1

DefaultKeys ==
    {KeyDatumFran, KeyDatumTill, KeyDatumTyp, KeyTyp, KeyStatus, KeyAlderskategori,
     KeyKon, KeySparadDatum}

\* v is the default of the key k for a call that read the clock as c
IsDefault(k, v, c) ==
    CASE k = KeyDatumFran -> DayOfText(v) = c[2] - 7
      [] k = KeyDatumTill -> DayOfText(v) = c[3] + 365
      [] k = KeySparadDatum -> DayOfText(v) = c[1]
      [] k = KeyDatumTyp -> v = JNum(0)
      [] k = KeyTyp -> v = JStr(<<"a", "l", "l", "a">>)
      [] k = KeyStatus ->
            v = JArr(<<JStr(<<"a", "v", "b", "r", "u", "t", "e", "n">>), JStr(<<"u", "p", "p", "s", "k", "j", "u", "t", "e", "n">>), JStr(<<"i", "n", "s", "t", "a", "l", "l", "d">>)>>)
      [] k = KeyAlderskategori -> v = JArr(<<JNum(1), JNum(2), JNum(3), JNum(4), JNum(5)>>)
      [] k = KeyKon -> v = JArr(<<JNum(3), JNum(2), JNum(4)>>)

\* the keys the filter of a caller supplies
Supplied(filter) == IF IsDict(filter) THEN DOMAIN filter[2] ELSE {}

SubList(a, b) ==
    \E f \in [1..Len(a) -> 1..Len(b)] :
        /\ \A i, j \in 1..Len(a) : i < j => f[i] < f[j]
        /\ \A i \in 1..Len(a) : a[i] = b[f[i]]

\* the outcome of the fetch_matches_list_json call of thread t
Fetched(t) == MatchesList(HandleResponse(resp[t]))

\* the fetch of thread t has yielded no data: an error, None or an empty list
NoData(t) ==
    \/ Fetched(t).kind # "return"
    \/ Fetched(t).val \in {JNull, JArr(<<>>)}

\* fetch_filtered_matches of thread t has called build_payload, then
\* fetch_matches_list_json once, with the payload built
ComposedInOrder(t) ==
    /\ Len(log[t]) >= 2
    /\ log[t][1] = "build_payload()"
    /\ log[t][2] = "fetch_matches_list_json()"
    /\ Count(log[t], "build_payload()") = 1
    /\ Count(log[t], "fetch_matches_list_json()") = 1
    /\ Count(log[t], "RPC request") = 1
    /\ frame[t].args = build_payload(mlf)
    /\ Count(log[t], "filter_matches()") <= 1
    /\ Count(log[t], "filter_matches()") = 1 => log[t][Len(log[t])] = "filter_matches()"

\* C25 (as claimed): fetch_filtered_matches calls build_payload(), then
\* fetch_matches_list_json(payload) exactly once, then the client-side filter,
\* and returns a sub-list of the fetched matches; when the fetch yields no
\* data (an error, None or an empty list) it returns an empty list and the
\* filter step is not run.
C25_FetchThenFilter ==
    \A t \in Threads :
        (frame[t].op = "fetch_filtered_matches" /\ pc[t] = "done") =>
            /\ ComposedInOrder(t)
            /\ IF NoData(t)
               THEN /\ result[t] = Return(JArr(<<>>))
                    /\ Count(log[t], "filter_matches()") = 0
               ELSE /\ Count(log[t], "filter_matches()") = 1
                    /\ result[t].kind = "return"
                    /\ IsList(result[t].val)
                    /\ SubList(result[t].val[2], Fetched(t).val[2])

=============================================================================
